---- MODULE Spec2Model ----
(***************************************************************************)
(* Research agent: a LangGraph state graph of seven nodes (reasoning,      *)
(* search, scraper, vector_store, retrieval, synthesis, human_review)      *)
(* compiled with a checkpointer and interruptBefore human_review, and the  *)
(* driver (main) that runs the review step itself and re-invokes the graph *)
(* on a rejection.                                                         *)
(*                                                                         *)
(*   channels   the graph's state channels as checkpointed under the       *)
(*              session's thread_id (one value per annotated field)        *)
(*   state      main's locals: researchQuestion as read from the command   *)
(*              line or the prompt, then the `state` object app.invoke     *)
(*              returned, overwritten field by field by Object.assign      *)
(*   pc         the position of control: a node name while the graph runs, *)
(*              a label of main otherwise                                  *)
(*   collection the evidence store (ChromaDB collection): persisted chunks *)
(*   invokes    number of app.invoke calls made so far                     *)
(*   faults     number of external-service exceptions raised so far        *)
(*   saved      the report written by saveReport (NullReport: none)        *)
(*   route      result of the last routeAfterHumanReview evaluation        *)
(*   chunking   a call of chunkText: its text as the list of the lengths   *)
(*              of its words, its window size and overlap, and the chunks  *)
(*              it returned                                                *)
(*   calls      the external calls made by a stage run on its own, in      *)
(*              order; the session as a whole does not record them         *)
(***************************************************************************)
EXTENDS Integers, Sequences, FiniteSets, TLC

VARIABLES channels, state, pc, collection, invokes, faults, saved, route, chunking,
          calls

vars == <<channels, state, pc, collection, invokes, faults, saved, route, chunking, calls>>

(***************************************************************************)
(* Program constants.                                                      *)
(***************************************************************************)
MAX_ITERATIONS == 3

MAX_URLS_TO_SCRAPE == 15

(***************************************************************************)
(* Bounds of the model.                                                    *)
(***************************************************************************)
\* app.invoke is called at most MaxInvokes times in a session: once more than
\* the iteration cap
MaxInvokes == MAX_ITERATIONS + 1

\* at most MaxFaults external calls (model, search, store) throw or, for the
\* decomposition, answer with no sub-query, in a session
MaxFaults == 1

\* the urls the search service knows
Urls == {1, 2}

Min(a, b) == IF a < b THEN a ELSE b

(***************************************************************************)
(* Values of the state schema.                                             *)
(***************************************************************************)
NodeStatus ==
  {"idle", "reasoning", "searching", "scraping", "storing", "retrieving",
   "synthesizing", "awaiting_human", "complete", "error"}

\* ResearchReport | null: null is the record with present = FALSE
NullReport == [present |-> FALSE, iterationCount |-> 0, citations |-> <<>>]

\* HumanFeedback | null
NullFeedback == [present |-> FALSE, approved |-> FALSE, feedback |-> ""]

\* what the reviewer types as feedback: a text, or nothing
Feedbacks == {"add more detail", ""}

\* the score Tavily gives a url, in tenths
SearchResult(u) == [url |-> u, score |-> u]

SubQuery(i, p) == [id |-> i, priority |-> p]

\* the sub-query lists the model's decomposition may parse to
DecomposeResponses ==
  { <<>>,
    <<SubQuery(1, "low"), SubQuery(2, "high")>> }

\* defaults of ResearchStateAnnotation
DefaultState ==
  [ researchQuestion |-> <<>>,
    subQueries      |-> <<>>,
    searchResults   |-> <<>>,
    scrapedContent  |-> <<>>,
    storedChunkIds  |-> <<>>,
    retrievedChunks |-> <<>>,
    draftReport     |-> NullReport,
    humanFeedback   |-> NullFeedback,
    currentNode     |-> "idle",
    iterationCount  |-> 0,
    errors          |-> <<>>,
    finalReport     |-> NullReport ]

\* the research questions entered, as character lists: empty, white space
\* only, and one with text
Questions == { <<>>, <<" ">>, <<" ", " ">>, <<" ", "x">> }

RECURSIVE TrimLeft(_)
TrimLeft(s) == IF s # <<>> /\ s[1] = " " THEN TrimLeft(Tail(s)) ELSE s

RECURSIVE TrimRight(_)
TrimRight(s) ==
  IF s # <<>> /\ s[Len(s)] = " " THEN TrimRight(SubSeq(s, 1, Len(s) - 1)) ELSE s

\* String.prototype.trim
Trim(s) == TrimRight(TrimLeft(s))

\* !researchQuestion?.trim()
IsBlank(researchQuestion) == Trim(researchQuestion) = <<>>

\* the defaults with a question asked
AskedState == [ DefaultState EXCEPT !.researchQuestion = <<" ", "x">> ]

(***************************************************************************)
(* Sequence helpers.                                                       *)
(***************************************************************************)
Range(s) == { s[i] : i \in 1..Len(s) }

UrlsOf(s) == { s[i].url : i \in 1..Len(s) }

NoDupUrl(s) == \A i, j \in 1..Len(s) : s[i].url = s[j].url => i = j

NoDup(s) == \A i, j \in 1..Len(s) : s[i] = s[j] => i = j

\* [...new Set(s)]: first occurrences, in order
RECURSIVE Dedup(_)
Dedup(s) ==
  IF s = <<>> THEN <<>>
  ELSE LET front == Dedup(SubSeq(s, 1, Len(s) - 1))
           last  == s[Len(s)]
       IN IF last \in Range(front) THEN front ELSE Append(front, last)

\* s.slice(0, n)
Slice(s, n) == SubSeq(s, 1, Min(n, Len(s)))

\* all sequences over S of length at most n
RECURSIVE SeqsUpTo(_, _)
SeqsUpTo(S, n) ==
  IF n = 0 THEN { <<>> }
  ELSE LET shorter == SeqsUpTo(S, n - 1)
       IN shorter \cup { Append(s, x) : s \in { t \in shorter : Len(t) = n - 1 }, x \in S }

(***************************************************************************)
(* Reducers of ResearchStateAnnotation, and how an update is merged.       *)
(***************************************************************************)
ReplaceReducer(curr, next) == next

AppendReducer(curr, next) == curr \o next

\* the search results wired to the replace policy
searchResultsReducer_Replace(curr, next) == next

searchResultsReducer(curr, next) == AppendReducer(curr, next)

scrapedContentReducer(curr, next) == AppendReducer(curr, next)

\* the identifiers wired to the plain append policy
storedChunkIdsReducer_Append(curr, next) == curr \o next

storedChunkIdsReducer(curr, next) == Dedup(curr \o next)

\* the retrieved chunks wired to the append policy
retrievedChunksReducer_Append(curr, next) == curr \o next

retrievedChunksReducer(curr, next) == ReplaceReducer(curr, next)

errorsReducer(curr, next) == AppendReducer(curr, next)

Reduce(key, curr, next) ==
  CASE key = "searchResults"  -> searchResultsReducer(curr, next)
    [] key = "scrapedContent" -> scrapedContentReducer(curr, next)
    [] key = "storedChunkIds" -> storedChunkIdsReducer(curr, next)
    [] key = "retrievedChunks" -> retrievedChunksReducer(curr, next)
    [] key = "errors"         -> errorsReducer(curr, next)
    [] OTHER                  -> ReplaceReducer(curr, next)

\* the engine merges a node's partial update (or an input) into the channels
ApplyUpdate(ch, upd) ==
  [ k \in DOMAIN ch |-> IF k \in DOMAIN upd THEN Reduce(k, ch[k], upd[k]) ELSE ch[k] ]

\* The inputs app.invoke may merge for the object `input`: every field, or,
\* in a version of the library that skips null input values, every field that
\* is not null.
InvokeInputs(input) ==
  LET nulls == { k \in {"draftReport", "finalReport", "humanFeedback"} : ~input[k].present }
  IN { input, [ k \in DOMAIN input \ nulls |-> input[k] ] }

\* Object.assign(state, reviewResult): every given field overwrites
ObjectAssign(st, upd) ==
  [ k \in DOMAIN st |-> IF k \in DOMAIN upd THEN upd[k] ELSE st[k] ]

ErrorUpdate(message) == [ errors |-> <<message>>, currentNode |-> "error" ]

(***************************************************************************)
(* reasoningNode: the model's answer either parses to a sub-query list or  *)
(* the node throws; a blank question makes it throw before the model is   *)
(* called.                                                                 *)
(***************************************************************************)
\* the decomposition forgetting to count its pass
reasoningNode_NoIncrement(st, parsed, subQueries) ==
  IF IsBlank(st.researchQuestion)
  THEN ErrorUpdate("Research question is required but was empty")
  ELSE IF ~parsed
  THEN ErrorUpdate("LLM returned non-JSON")
  ELSE [ subQueries     |-> subQueries,
         currentNode    |-> "searching",
         iterationCount |-> st.iterationCount ]

reasoningNode(st, parsed, subQueries) ==
  IF IsBlank(st.researchQuestion)
  THEN ErrorUpdate("Research question is required but was empty")
  ELSE IF ~parsed
  THEN ErrorUpdate("LLM returned non-JSON")
  ELSE [ subQueries     |-> subQueries,
         currentNode    |-> "searching",
         iterationCount |-> st.iterationCount + 1 ]

(***************************************************************************)
(* searchNode.  outcomes[i] is what executeSearch does for the i-th        *)
(* sub-query in priority order: [ok |-> TRUE, results |-> ...] or a throw. *)
(***************************************************************************)
\* a call returns at most as many results as there are urls, and may return
\* one url twice
SearchResponses ==
  { [ i \in 1..Len(us) |-> SearchResult(us[i]) ] : us \in SeqsUpTo(Urls, Cardinality(Urls)) }

SearchOutcomes ==
  { [ok |-> TRUE, results |-> r] : r \in SearchResponses }
    \cup { [ok |-> FALSE, results |-> <<>>] }

\* the sub-queries searched in the order decomposition gave them
Prioritized_Unsorted(subQueries) == subQueries

\* [...subQueries].sort by priority order high, medium, low (stable)
Prioritized(subQueries) ==
  SelectSeq(subQueries, LAMBDA q : q.priority = "high")
    \o SelectSeq(subQueries, LAMBDA q : q.priority = "medium")
    \o SelectSeq(subQueries, LAMBDA q : q.priority = "low")

\* results.filter((r) => !existingUrls.has(r.url))
FilterNew(results, existingUrls) ==
  SelectSeq(results, LAMBDA r : r.url \notin existingUrls)

\* the for loop over the prioritized sub-queries, from the k-th on
RECURSIVE SearchLoop(_, _, _, _)
SearchLoop(k, outcomes, existingUrls, allNewResults) ==
  IF k > Len(outcomes) THEN allNewResults
  ELSE IF ~outcomes[k].ok
       THEN SearchLoop(k + 1, outcomes, existingUrls, allNewResults)
       ELSE LET newResults == FilterNew(outcomes[k].results, existingUrls)
            IN SearchLoop(k + 1, outcomes, existingUrls \cup UrlsOf(newResults),
                          allNewResults \o newResults)

searchNode(st, outcomes) ==
  IF Len(st.subQueries) = 0
  THEN ErrorUpdate("No sub-queries available for search")
  ELSE [ searchResults |-> SearchLoop(1, outcomes, UrlsOf(st.searchResults), <<>>),
         currentNode   |-> "scraping" ]

(***************************************************************************)
(* scraperNode and scrapeUrls.  fetch[u] is how the fetch of url u ends in *)
(* this pass: "ok" (a page of more than 50 words), "short" or "error".     *)
(***************************************************************************)
FetchOutcomes == {"ok", "short", "error"}

scrapeUrl(u, outcome) ==
  [ url       |-> u,
    wordCount |-> CASE outcome = "ok"        -> 60
                    [] outcome = "fifty one" -> 51
                    [] outcome = "fifty"     -> 50
                    [] outcome = "short"     -> 40
                    [] OTHER                 -> 0,
    error     |-> outcome \in {"error", "timeout", "not html"} ]

\* a page of exactly 50 words kept
Successful_FromFifty(pages) == SelectSeq(pages, LAMBDA c : ~c.error /\ c.wordCount >= 50)

Successful(pages) == SelectSeq(pages, LAMBDA c : ~c.error /\ c.wordCount > 50)

scrapeUrls(urls, fetch) ==
  Successful([ i \in 1..Len(urls) |-> scrapeUrl(urls[i], fetch[urls[i]]) ])

\* r.score ?? 0: the score is optional in SearchResultSchema
ScoreOrZero(r) == IF "score" \in DOMAIN r THEN r.score ELSE 0

\* stable insertion of x into a list sorted by descending score
InsertByScore(sorted, x) ==
  LET lower == { i \in 1..Len(sorted) : ScoreOrZero(sorted[i]) < ScoreOrZero(x) }
      p     == IF lower = {} THEN Len(sorted) + 1
               ELSE CHOOSE i \in lower : \A j \in lower : i <= j
  IN SubSeq(sorted, 1, p - 1) \o <<x>> \o SubSeq(sorted, p, Len(sorted))

\* [...searchResults].sort((a, b) => b.score - a.score)
RECURSIVE SortByScore(_)
SortByScore(s) ==
  IF s = <<>> THEN <<>>
  ELSE InsertByScore(SortByScore(SubSeq(s, 1, Len(s) - 1)), s[Len(s)])

\* the cap applied before the scraped urls are skipped
urlsToScrape_SliceFirst(st) ==
  LET scrapedUrls == UrlsOf(st.scrapedContent)
      kept == SelectSeq(Slice(SortByScore(st.searchResults), MAX_URLS_TO_SCRAPE),
                        LAMBDA r : r.url \notin scrapedUrls)
  IN [ i \in 1..Len(kept) |-> kept[i].url ]

urlsToScrape(st) ==
  LET scrapedUrls == UrlsOf(st.scrapedContent)
      kept == Slice(SelectSeq(SortByScore(st.searchResults),
                              LAMBDA r : r.url \notin scrapedUrls),
                    MAX_URLS_TO_SCRAPE)
  IN [ i \in 1..Len(kept) |-> kept[i].url ]

\* a scrape stage that records every fetched page, failed ones included
scraperNode_RecordAll(st, fetch) ==
  LET urls == urlsToScrape(st)
  IN IF Len(st.searchResults) = 0
     THEN ErrorUpdate("No search results to scrape")
     ELSE IF Len(urls) = 0
          THEN [ currentNode |-> "storing" ]
          ELSE [ scrapedContent |->
                   [ i \in 1..Len(urls) |-> scrapeUrl(urls[i], fetch[urls[i]]) ],
                 currentNode    |-> "storing" ]

scraperNode(st, fetch) ==
  LET urls == urlsToScrape(st)
  IN IF Len(st.searchResults) = 0
     THEN ErrorUpdate("No search results to scrape")
     ELSE IF Len(urls) = 0
          THEN [ currentNode |-> "storing" ]
          ELSE [ scrapedContent |-> Successful(scrapeUrls(urls, fetch)),
                 currentNode    |-> "storing" ]

(***************************************************************************)
(* vectorStoreNode and storeInVectorDB.  Every page yields one chunk; the  *)
(* chunk ids are fresh (uuid).  failAt = 0: no call throws; failAt = j:    *)
(* the embedding of the j-th page of scrapedContent throws.                *)
(***************************************************************************)
CeilDiv(a, b) == (a + b - 1) \div b

\* one storeInVectorDB call: [threw, ids, coll]
storeInVectorDB(batch, subQueryId, coll, failPos) ==
  LET eligible  == SelectSeq(batch, LAMBDA page : ~(page.wordCount < 50))
      threw     == failPos \in 1..Len(eligible)
      persisted == IF threw THEN SubSeq(eligible, 1, failPos - 1) ELSE eligible
      chunks    == [ j \in 1..Len(persisted) |->
                       [ id |-> Len(coll) + j, url |-> persisted[j].url ] ]
  IN [ threw |-> threw,
       ids   |-> [ j \in 1..Len(chunks) |-> chunks[j].id ],
       coll  |-> coll \o chunks ]

\* the for loop over the batches, from offset i on: [threw, ids, coll]
RECURSIVE StoreBatches(_, _, _, _, _, _, _)
StoreBatches(i, pages, subQueryIds, batchSize, localIds, coll, failAt) ==
  IF ~(i < Len(pages)) THEN [ threw |-> FALSE, ids |-> localIds, coll |-> coll ]
  ELSE LET batch      == SubSeq(pages, i + 1, Min(i + batchSize, Len(pages)))
           b          == (i \div batchSize) + 1
           subQueryId == IF b <= Len(subQueryIds) THEN subQueryIds[b] ELSE subQueryIds[1]
           failPos    == IF failAt > i /\ failAt <= i + Len(batch) THEN failAt - i ELSE 0
           r          == storeInVectorDB(batch, subQueryId, coll, failPos)
       IN IF r.threw THEN [ threw |-> TRUE, ids |-> localIds, coll |-> r.coll ]
          ELSE StoreBatches(i + batchSize, pages, subQueryIds, batchSize,
                            IF i = 0 THEN r.ids ELSE localIds \o r.ids, r.coll, failAt)

\* a failure of the stage reported as fatal
vectorStoreNode_Fatal(st, coll, failAt) ==
  LET pages       == st.scrapedContent
      subQueryIds == [ i \in 1..Len(st.subQueries) |-> st.subQueries[i].id ]
      batchSize   == CeilDiv(Len(pages), IF Len(subQueryIds) > 1 THEN Len(subQueryIds) ELSE 1)
      r           == StoreBatches(0, pages, subQueryIds, batchSize,
                                  st.storedChunkIds, coll, failAt)
  IN IF Len(pages) = 0
     THEN [ update |-> [ currentNode |-> "retrieving" ], coll |-> coll ]
     ELSE IF Len(subQueryIds) = 0
          \* subQueryId is undefined: subQueryId.slice throws before any store call
          THEN [ update |-> [ errors |-> <<"subQueryId is undefined">>,
                              currentNode |-> "retrieving" ],
                 coll |-> coll ]
          ELSE IF r.threw
               THEN [ update |-> ErrorUpdate("vector storage error"),
                      coll |-> r.coll ]
               ELSE [ update |-> [ storedChunkIds |-> r.ids, currentNode |-> "retrieving" ],
                      coll |-> r.coll ]

\* [update, coll]: the node's update and the store's contents afterwards
vectorStoreNode(st, coll, failAt) ==
  LET pages       == st.scrapedContent
      subQueryIds == [ i \in 1..Len(st.subQueries) |-> st.subQueries[i].id ]
      batchSize   == CeilDiv(Len(pages), IF Len(subQueryIds) > 1 THEN Len(subQueryIds) ELSE 1)
      r           == StoreBatches(0, pages, subQueryIds, batchSize,
                                  st.storedChunkIds, coll, failAt)
  IN IF Len(pages) = 0
     THEN [ update |-> [ currentNode |-> "retrieving" ], coll |-> coll ]
     ELSE IF Len(subQueryIds) = 0
          \* subQueryId is undefined: subQueryId.slice throws before any store call
          THEN [ update |-> [ errors |-> <<"subQueryId is undefined">>,
                              currentNode |-> "retrieving" ],
                 coll |-> coll ]
          ELSE IF r.threw
               THEN [ update |-> [ errors |-> <<"vector storage error">>,
                                   currentNode |-> "retrieving" ],
                      coll |-> r.coll ]
               ELSE [ update |-> [ storedChunkIds |-> r.ids, currentNode |-> "retrieving" ],
                      coll |-> r.coll ]

(***************************************************************************)
(* retrievalNode.  One chunk per page, so the deduplicated, ranked result  *)
(* is a list of distinct source urls of the store, in rank order; an empty *)
(* store gives no result.                                                  *)
(***************************************************************************)
RetrievedChunk(u) == [ url |-> u ]

\* the non-empty lists of distinct urls of S, best first (a higher url ranks
\* higher)
Rankings(S) ==
  { s \in SeqsUpTo(S, Cardinality(S)) :
      Len(s) > 0 /\ \A i, j \in 1..Len(s) : i < j => s[i] > s[j] }

RetrievalResults(coll) ==
  IF Len(coll) = 0 THEN { <<>> }
  ELSE { [ i \in 1..Len(r) |-> RetrievedChunk(r[i]) ] : r \in Rankings(UrlsOf(coll)) }

retrievalNode(st, threw, topChunks) ==
  IF threw
  THEN ErrorUpdate("retrieval failed")
  ELSE [ retrievedChunks |-> topChunks, currentNode |-> "synthesizing" ]

(***************************************************************************)
(* synthesisNode.  A citation is its id and its url.                       *)
(***************************************************************************)
CITED_SEARCH_RESULTS == 20

\* one of buildCitationMap's loops over the urls from position i on; map is
\* urlToCitation's values in insertion order, with the running nextId
RECURSIVE CitationLoop(_, _, _)
CitationLoop(urls, i, acc) ==
  IF i > Len(urls) THEN acc
  ELSE IF \E k \in 1..Len(acc.map) : acc.map[k].url = urls[i]
       THEN CitationLoop(urls, i + 1, acc)
       ELSE CitationLoop(urls, i + 1,
                         [ map    |-> Append(acc.map, [ id |-> acc.nextId, url |-> urls[i] ]),
                           nextId |-> acc.nextId + 1 ])

\* the numbering starting again at 1 for the search results
buildCitationMap_Renumber(st) ==
  LET chunkUrls  == [ i \in 1..Len(st.retrievedChunks) |-> st.retrievedChunks[i].url ]
      head       == Slice(st.searchResults, CITED_SEARCH_RESULTS)
      resultUrls == [ i \in 1..Len(head) |-> head[i].url ]
      chunks     == CitationLoop(chunkUrls, 1, [ map |-> <<>>, nextId |-> 1 ])
  IN CitationLoop(resultUrls, 1, [ map |-> chunks.map, nextId |-> 1 ]).map

buildCitationMap(st) ==
  LET chunkUrls  == [ i \in 1..Len(st.retrievedChunks) |-> st.retrievedChunks[i].url ]
      head       == Slice(st.searchResults, CITED_SEARCH_RESULTS)
      resultUrls == [ i \in 1..Len(head) |-> head[i].url ]
      chunks     == CitationLoop(chunkUrls, 1, [ map |-> <<>>, nextId |-> 1 ])
  IN CitationLoop(resultUrls, 1, chunks).map

synthesisNode(st, parsed) ==
  IF Len(st.retrievedChunks) = 0
  THEN ErrorUpdate("No retrieved chunks available for synthesis")
  ELSE IF ~parsed
       THEN ErrorUpdate("LLM returned non-JSON report")
       ELSE [ draftReport |-> [ present        |-> TRUE,
                                iterationCount |-> st.iterationCount,
                                citations      |-> buildCitationMap(st) ],
              currentNode |-> "awaiting_human" ]

(***************************************************************************)
(* humanReviewNode: the update it returns for a recognized choice          *)
(* ("A" approve, "R" reject with feedback); "Q" exits the process and any  *)
(* other choice prompts again.                                             *)
(***************************************************************************)
\* feedbackText || "Please improve the report"
StoredFeedback(feedbackText) ==
  IF feedbackText = "" THEN "Please improve the report" ELSE feedbackText

\* the approval returned without finalReport
humanReviewNode_NoStamp(st, choice, feedbackText) ==
  IF ~st.draftReport.present
  THEN ErrorUpdate("No draft report available for review")
  ELSE IF choice = "A"
       THEN [ humanFeedback |-> [ present |-> TRUE, approved |-> TRUE,
                                  feedback |-> "Report approved" ],
              currentNode   |-> "complete" ]
       ELSE [ humanFeedback   |-> [ present |-> TRUE, approved |-> FALSE,
                                    feedback |-> StoredFeedback(feedbackText) ],
              currentNode     |-> "reasoning",
              retrievedChunks |-> <<>>,
              draftReport     |-> NullReport ]

humanReviewNode(st, choice, feedbackText) ==
  IF ~st.draftReport.present
  THEN ErrorUpdate("No draft report available for review")
  ELSE IF choice = "A"
       THEN [ humanFeedback |-> [ present |-> TRUE, approved |-> TRUE,
                                  feedback |-> "Report approved" ],
              currentNode   |-> "complete",
              finalReport   |-> st.draftReport ]
       ELSE [ humanFeedback   |-> [ present |-> TRUE, approved |-> FALSE,
                                    feedback |-> StoredFeedback(feedbackText) ],
              currentNode     |-> "reasoning",
              retrievedChunks |-> <<>>,
              draftReport     |-> NullReport ]

(***************************************************************************)
(* Routers of the graph.                                                   *)
(***************************************************************************)
\* the safety valve comparing with > instead of >=
routeAfterHumanReview_OffByOne(st) ==
  IF st.humanFeedback.approved \/ ~st.humanFeedback.present
  THEN "__end__"
  ELSE IF st.iterationCount > MAX_ITERATIONS
       THEN "__end__"
       ELSE "reasoning"

routeAfterHumanReview(st) ==
  IF st.humanFeedback.approved \/ ~st.humanFeedback.present
  THEN "__end__"
  ELSE IF st.iterationCount >= MAX_ITERATIONS
       THEN "__end__"
       ELSE "reasoning"

routeAfterError(st) == "__end__"

\* the edges with the one out of scraper leading past vector_store
EdgeFrom_SkipIndex(node) ==
  CASE node = "reasoning"    -> "search"
    [] node = "search"       -> "scraper"
    [] node = "scraper"      -> "retrieval"
    [] node = "vector_store" -> "retrieval"
    [] node = "retrieval"    -> "synthesis"
    [] node = "synthesis"    -> "human_review"

\* the successor of a node by the edges buildResearchGraph adds
EdgeFrom(node) ==
  CASE node = "reasoning"    -> "search"
    [] node = "search"       -> "scraper"
    [] node = "scraper"      -> "vector_store"
    [] node = "vector_store" -> "retrieval"
    [] node = "retrieval"    -> "synthesis"
    [] node = "synthesis"    -> "human_review"

(***************************************************************************)
(* The session: main drives the compiled graph.                            *)
(***************************************************************************)
\* no page is being chunked
NoChunking ==
  [ words |-> <<>>, chunkSize |-> 0, overlap |-> 0, chunks |-> <<>>, done |-> FALSE ]

Init ==
  /\ channels = DefaultState
  /\ \E researchQuestion \in Questions :
       state = [ DefaultState EXCEPT !.researchQuestion = researchQuestion ]
  /\ pc = "main"
  /\ collection = <<>>
  /\ invokes = 0
  /\ faults = 0
  /\ saved = NullReport
  /\ route = "none"
  /\ chunking = NoChunking
  /\ calls = <<>>

\* the engine merges a node's update and follows the node's edge; the graph
\* is compiled with interruptBefore human_review, where invoke returns the
\* channel values to main
EngineStep(node, update) ==
  /\ channels' = ApplyUpdate(channels, update)
  /\ IF EdgeFrom(node) = "human_review"
     THEN pc' = "review" /\ state' = channels'
     ELSE pc' = EdgeFrom(node) /\ UNCHANGED state

\* the check of the question skipped
MainStart_NoCheck ==
  /\ pc = "main"
  /\ pc' = "start"
  /\ collection' = <<>>
  /\ UNCHANGED <<channels, state, invokes, faults, saved, route, chunking, calls>>

\* main up to buildResearchGraph: a blank question ends the process with
\* "Research question cannot be empty"; otherwise the store is cleared
MainStart ==
  /\ pc = "main"
  /\ IF IsBlank(state.researchQuestion)
     THEN pc' = "exit_invalid_input" /\ UNCHANGED collection
     ELSE pc' = "start" /\ collection' = <<>>
  /\ UNCHANGED <<channels, state, invokes, faults, saved, route, chunking, calls>>

\* state = await app.invoke({researchQuestion, messages: []}, config)
Invoke ==
  /\ pc = "start"
  /\ channels' = ApplyUpdate(channels, [ researchQuestion |-> state.researchQuestion ])
  /\ pc' = "reasoning"
  /\ invokes' = invokes + 1
  /\ UNCHANGED <<state, collection, faults, saved, route, chunking, calls>>

RunReasoning ==
  /\ pc = "reasoning"
  /\ \E parsed \in BOOLEAN, subQueries \in DecomposeResponses :
       /\ ~parsed => subQueries = <<>>
       /\ subQueries = <<>> => faults < MaxFaults
       /\ faults' = IF subQueries = <<>> THEN faults + 1 ELSE faults
       /\ EngineStep("reasoning", reasoningNode(channels, parsed, subQueries))
  /\ UNCHANGED <<collection, invokes, saved, route, chunking, calls>>

\* what the calls of one pass can return for n sub-queries
SearchPasses(n) == [ 1..n -> SearchOutcomes ]

RunSearch ==
  /\ pc = "search"
  /\ \E update \in { searchNode(channels, outcomes) :
                        outcomes \in SearchPasses(Len(Prioritized(channels.subQueries))) } :
       EngineStep("search", update)
  /\ UNCHANGED <<collection, invokes, faults, saved, route, chunking, calls>>

RunScraper ==
  /\ pc = "scraper"
  /\ \E update \in { scraperNode(channels, fetch) :
                        fetch \in [ Range(urlsToScrape(channels)) -> FetchOutcomes ] } :
       EngineStep("scraper", update)
  /\ UNCHANGED <<collection, invokes, faults, saved, route, chunking, calls>>

\* no embedding call throws (0), or the one for the first or for the last of
\* the n pages does
StoreFailures(n) == {0, Min(1, n), n}

RunVectorStore ==
  /\ pc = "vector_store"
  /\ \E failAt \in StoreFailures(Len(channels.scrapedContent)) :
       LET r == vectorStoreNode(channels, collection, failAt)
       IN /\ failAt > 0 => (faults < MaxFaults /\ Len(channels.subQueries) > 0)
          /\ faults' = IF failAt > 0 THEN faults + 1 ELSE faults
          /\ collection' = r.coll
          /\ EngineStep("vector_store", r.update)
  /\ UNCHANGED <<invokes, saved, route, chunking, calls>>

RunRetrieval ==
  /\ pc = "retrieval"
  /\ \E threw \in BOOLEAN, topChunks \in RetrievalResults(collection) :
       /\ threw => (faults < MaxFaults /\ \A other \in RetrievalResults(collection) :
                                             Len(topChunks) <= Len(other))
       /\ faults' = IF threw THEN faults + 1 ELSE faults
       /\ EngineStep("retrieval", retrievalNode(channels, threw, topChunks))
  /\ UNCHANGED <<collection, invokes, saved, route, chunking, calls>>

RunSynthesis ==
  /\ pc = "synthesis"
  /\ \E parsed \in BOOLEAN :
       /\ ~parsed => (faults < MaxFaults /\ Len(channels.retrievedChunks) > 0)
       /\ faults' = IF parsed THEN faults ELSE faults + 1
       /\ EngineStep("synthesis", synthesisNode(channels, parsed))
  /\ UNCHANGED <<collection, invokes, saved, route, chunking, calls>>

\* while (state.currentNode !== "complete" && state.finalReport === null)
WhileCond(st) == st.currentNode # "complete" /\ ~st.finalReport.present

\* const finalReport = state.finalReport ?? state.draftReport; saveReport:
\* the report written, and where main ends
FinalOutput(st) ==
  LET finalReport == IF st.finalReport.present THEN st.finalReport ELSE st.draftReport
  IN [ saved |-> finalReport,
       pc    |-> IF finalReport.present THEN "done" ELSE "exit_no_report" ]

\* One turn of main's loop on a recognized choice ("A", "R"), or with
\* humanReviewNode failing for want of a draft: the review result is merged by
\* Object.assign; then main breaks to the final output, or re-invokes the graph
\* (state = await app.invoke(state, config): the whole local state is the input,
\* merged into the checkpointed channels by the reducers, and the graph starts
\* again from its entry node), or goes round the loop again.
Review ==
  /\ pc = "review"
  /\ WhileCond(state)
  /\ \E choice \in {"A", "R"}, feedbackText \in Feedbacks :
       LET reviewed == ObjectAssign(state, humanReviewNode(state, choice, feedbackText))
       IN /\ ~state.draftReport.present => choice = "A"
          /\ state' = reviewed
          /\ IF reviewed.humanFeedback.approved \/ reviewed.currentNode = "complete"
             THEN /\ saved' = FinalOutput(reviewed).saved
                  /\ pc' = FinalOutput(reviewed).pc
                  /\ UNCHANGED <<channels, invokes>>
             ELSE IF reviewed.currentNode = "reasoning"
                  THEN /\ invokes < MaxInvokes
                       /\ \E input \in InvokeInputs(reviewed) :
                            channels' = ApplyUpdate(channels, input)
                       /\ invokes' = invokes + 1
                       /\ pc' = "reasoning"
                       /\ UNCHANGED saved
                  ELSE UNCHANGED <<channels, invokes, saved, pc>>
  /\ UNCHANGED <<collection, faults, route, chunking, calls>>

\* "Q": process.exit(0)
ReviewQuit ==
  /\ pc = "review"
  /\ WhileCond(state)
  /\ state.draftReport.present
  /\ pc' = "exit_quit"
  /\ UNCHANGED <<channels, state, collection, invokes, faults, saved, route, chunking, calls>>

\* any other choice: humanReviewNode calls itself with the same state
ReviewInvalid ==
  /\ pc = "review"
  /\ WhileCond(state)
  /\ state.draftReport.present
  /\ UNCHANGED vars

Next ==
  \/ MainStart
  \/ Invoke
  \/ RunReasoning
  \/ RunSearch
  \/ RunScraper
  \/ RunVectorStore
  \/ RunRetrieval
  \/ RunSynthesis
  \/ Review
  \/ ReviewQuit
  \/ ReviewInvalid

Spec == Init /\ [][Next]_vars

(***************************************************************************)
(* The compiled graph resumed at its checkpoint with no input              *)
(* (app.invoke(null, config)): human_review runs as a node of the graph,   *)
(* its update is merged by the reducers and the conditional edge is        *)
(* evaluated.  The checkpoint is drawn from the states a session can be    *)
(* interrupted in.                                                         *)
(***************************************************************************)
\* the drawn iteration counters go up to MaxOver beyond the cap
MaxOver == 3

InterruptedStates ==
  { [ AskedState EXCEPT
        !.iterationCount = n,
        !.humanFeedback  = f,
        !.draftReport    = IF drafted
                           THEN [ present |-> TRUE, iterationCount |-> n, citations |-> <<>> ]
                           ELSE NullReport,
        !.currentNode    = IF drafted THEN "awaiting_human" ELSE "error" ] :
      n \in 0..(MAX_ITERATIONS + MaxOver),
      f \in { NullFeedback } \cup
            { [ present |-> TRUE, approved |-> FALSE, feedback |-> StoredFeedback(t) ] : t \in Feedbacks },
      drafted \in BOOLEAN }

InitRoute ==
  /\ channels \in InterruptedStates
  /\ state = channels
  /\ pc = "human_review"
  /\ collection = <<>>
  /\ invokes = 1
  /\ faults = 0
  /\ saved = NullReport
  /\ route = "none"
  /\ chunking = NoChunking
  /\ calls = <<>>

GraphHumanReview ==
  /\ pc = "human_review"
  /\ \E choice \in {"A", "R"}, feedbackText \in Feedbacks :
       /\ ~channels.draftReport.present => choice = "A"
       /\ channels' = ApplyUpdate(channels, humanReviewNode(channels, choice, feedbackText))
  /\ pc' = "route"
  /\ UNCHANGED <<state, collection, invokes, faults, saved, route, chunking, calls>>

\* graph.addConditionalEdges("human_review", routeAfterHumanReview, ...)
ConditionalEdge ==
  /\ pc = "route"
  /\ route' = routeAfterHumanReview(channels)
  /\ pc' = route'
  /\ UNCHANGED <<channels, state, collection, invokes, faults, saved, chunking, calls>>

NextRoute ==
  \/ GraphHumanReview
  \/ ConditionalEdge

SpecRoute == InitRoute /\ [][NextRoute]_vars

(***************************************************************************)
(* Claims.                                                                 *)
(***************************************************************************)
GraphNodes == {"reasoning", "search", "scraper", "vector_store", "retrieval", "synthesis"}

LaterStages == GraphNodes \ {"reasoning"}

\* main's review turn recorded a rejection
RejectStep ==
  /\ pc = "review"
  /\ state.draftReport.present
  /\ state' # state
  /\ state'.humanFeedback.present
  /\ ~state'.humanFeedback.approved

\* C1: once the conditional edge after human_review has been evaluated, it
\* leads to "__end__" or to "reasoning", and to "__end__" exactly when the
\* feedback is approved, or there is no feedback, or iterationCount has
\* reached MAX_ITERATIONS.
C1_RouteAfterReview ==
  route # "none" =>
    /\ route \in {"__end__", "reasoning"}
    /\ route = "__end__" <=>
         \/ channels.humanFeedback.approved
         \/ ~channels.humanFeedback.present
         \/ channels.iterationCount >= MAX_ITERATIONS

\* C1 witness: a rejection routed to the end because the counter equals the cap
C1_Witness ==
  /\ route = "__end__"
  /\ channels.humanFeedback.present
  /\ ~channels.humanFeedback.approved
  /\ channels.iterationCount = MAX_ITERATIONS

\* C2: a review that rejects the draft while iterationCount equals
\* MAX_ITERATIONS ends the session with that draft as the final report: main
\* is done, finalReport is the draft that was under review and no further
\* decomposition pass starts.
C2_RejectAtCapFinalizes ==
  [][ (RejectStep /\ state.iterationCount = MAX_ITERATIONS) =>
        /\ pc' = "done"
        /\ state'.finalReport = state.draftReport
        /\ saved' = state.draftReport ]_vars

\* C3: whatever the reviews decide, a session makes at most MAX_ITERATIONS
\* decomposition passes: app.invoke, which starts one pass, is called at most
\* MAX_ITERATIONS times and the counter never passes the cap.
C3_PassesBoundedByCap ==
  /\ invokes <= MAX_ITERATIONS
  /\ channels.iterationCount <= MAX_ITERATIONS

\* C4: when a stage has returned an error update (marker "error"), the engine
\* does not go on to a later stage of the pass.
C4_ErrorEndsPass ==
  pc \in LaterStages => channels.currentNode # "error"

StageFailures ==
  { "No sub-queries available for search",
    "No retrieved chunks available for synthesis",
    "LLM returned non-JSON report" }

\* C5: after a stage-level failure the marker stays "error" until control is
\* back with the caller, and the error list keeps the failure's message.
C5_StageFailureIsTerminal ==
  [][ ( /\ pc \in GraphNodes
        /\ channels.currentNode = "error"
        /\ Len(channels.errors) > 0
        /\ channels.errors[Len(channels.errors)] \in StageFailures ) =>
        /\ channels'.currentNode = "error"
        /\ channels.errors[Len(channels.errors)] \in Range(channels'.errors) ]_vars

\* C6: a rejection below the cap re-enters decomposition with retrievedChunks
\* empty and draftReport null, and with searchResults, scrapedContent and
\* storedChunkIds exactly as they were before the review.
C6_RejectionFrame ==
  [][ (RejectStep /\ state.iterationCount < MAX_ITERATIONS) =>
        /\ pc' = "reasoning"
        /\ channels'.retrievedChunks = <<>>
        /\ ~channels'.draftReport.present
        /\ channels'.searchResults = channels.searchResults
        /\ channels'.scrapedContent = channels.scrapedContent
        /\ channels'.storedChunkIds = channels.storedChunkIds ]_vars

\* C7: no url occurs twice in the accumulated searchResults, in the engine's
\* state or in the caller's.
C7_SearchUrlsUnique ==
  /\ NoDupUrl(channels.searchResults)
  /\ NoDupUrl(state.searchResults)

\* C8: no url occurs twice in the accumulated scrapedContent, in the engine's
\* state or in the caller's.
C8_ScrapedUrlsUnique ==
  /\ NoDupUrl(channels.scrapedContent)
  /\ NoDupUrl(state.scrapedContent)

\* C9 as stated: the counter starts at 0, every decomposition pass increases
\* it by exactly 1 and no other step changes it.
C9_EveryPassCounts ==
  /\ channels.iterationCount = 0
  /\ [][ IF pc = "reasoning"
         THEN channels'.iterationCount = channels.iterationCount + 1
         ELSE channels'.iterationCount = channels.iterationCount ]_vars

\* C9 amended: the counter starts at 0, a decomposition pass that succeeds
\* increases it by exactly 1, a decomposition that fails leaves it unchanged,
\* no other step changes it, and the caller's copy never decreases.
C9_IterationCounter ==
  /\ channels.iterationCount = 0
  /\ [][ /\ IF pc = "reasoning"
            THEN \/ /\ channels'.currentNode = "searching"
                    /\ channels'.iterationCount = channels.iterationCount + 1
                 \/ /\ channels'.currentNode = "error"
                    /\ channels'.iterationCount = channels.iterationCount
            ELSE channels'.iterationCount = channels.iterationCount
         /\ state'.iterationCount >= state.iterationCount ]_vars

\* C9 witness: a first pass counted, then a revision pass whose decomposition
\* failed
C9_Witness ==
  /\ pc = "search"
  /\ invokes = 2
  /\ channels.currentNode = "error"
  /\ channels.iterationCount = 1

\* C10: storedChunkIds never holds an id twice and never loses an id, in the
\* engine's state and in the caller's, whatever step is taken.
C10_StoredChunkIdsGrow ==
  [][ /\ NoDup(channels'.storedChunkIds)
      /\ NoDup(state'.storedChunkIds)
      /\ Range(channels.storedChunkIds) \subseteq Range(channels'.storedChunkIds)
      /\ Range(state.storedChunkIds) \subseteq Range(state'.storedChunkIds) ]_vars

\* C10 witness: a revision pass has stored chunks on top of the first pass's
C10_Witness ==
  /\ invokes >= 2
  /\ pc = "retrieval"
  /\ Len(channels.storedChunkIds) > Len(state.storedChunkIds)
  /\ Len(state.storedChunkIds) > 0

\* s is an initial segment of t
IsPrefix(s, t) ==
  /\ Len(s) <= Len(t)
  /\ \A i \in 1..Len(s) : t[i] = s[i]

\* C11: searchResults and scrapedContent change only by elements being
\* appended after the existing ones, in the engine's state and in the
\* caller's, whatever step is taken (rejections and resumes included).
C11_ListsAppendOnly ==
  [][ /\ IsPrefix(channels.searchResults, channels'.searchResults)
      /\ IsPrefix(channels.scrapedContent, channels'.scrapedContent)
      /\ IsPrefix(state.searchResults, state'.searchResults)
      /\ IsPrefix(state.scrapedContent, state'.scrapedContent) ]_vars

\* C11 witness: a revision pass has searched and scraped on top of what the
\* caller held at the review
C11_Witness ==
  /\ invokes >= 2
  /\ pc = "vector_store"
  /\ Len(state.searchResults) > 0
  /\ Len(state.scrapedContent) > 0
  /\ Len(channels.searchResults) > 2 * Len(state.searchResults)
  /\ Len(channels.scrapedContent) > 2 * Len(state.scrapedContent)

\* C12: a message recorded in the error list stays in the list at its
\* position, in the engine's state and in the caller's, whatever step is
\* taken (the caller's merge of the review result included).
C12_ErrorsAppendOnly ==
  [][ /\ IsPrefix(channels.errors, channels'.errors)
      /\ IsPrefix(state.errors, state'.errors) ]_vars

\* the stage that follows each stage of a pass, the review being the caller's
StageAfter ==
  [ reasoning    |-> "search",
    search       |-> "scraper",
    scraper      |-> "vector_store",
    vector_store |-> "retrieval",
    retrieval    |-> "synthesis",
    synthesis    |-> "review" ]

\* C13: a pass starts at decomposition, every stage hands over to the next
\* one of the order decompose, search, scrape, index, retrieve, synthesize,
\* and the engine gives its state to the caller only on completing synthesis,
\* immediately before review, with the checkpoint equal to what it returned.
C13_StageOrderAndSuspend ==
  [][ /\ pc \in GraphNodes => pc' = StageAfter[pc]
      /\ (pc \in GraphNodes /\ pc # "synthesis") => state' = state
      /\ pc = "synthesis" => state' = channels'
      /\ (pc \notin GraphNodes /\ pc' \in GraphNodes) =>
           /\ pc' = "reasoning"
           /\ invokes' = invokes + 1
      /\ (pc' = "review" /\ pc # "review") => pc = "synthesis" ]_vars

\* C13 witness: the second pass has run through and is suspended before review
C13_Witness ==
  /\ pc = "review"
  /\ invokes = 2
  /\ state = channels
  /\ state.currentNode = "awaiting_human"

(***************************************************************************)
(* synthesisNode on its own: the engine is about to run synthesis on a     *)
(* state whose retrieved chunks and accumulated search results are drawn,  *)
(* the search results being long enough to pass the slice of               *)
(* buildCitationMap.                                                       *)
(***************************************************************************)
\* the longest list of search results drawn
MaxResults == 22

\* the urls of the drawn retrieved chunks
ChunkUrls == {2, 22}

\* how the url of the i-th search result is drawn: all distinct, repeating
\* with period 3, or one url up to the slice and fresh ones after it
UrlPatterns == {"distinct", "repeating", "late"}

PatternUrl(pattern, i) ==
  CASE pattern = "distinct"  -> i
    [] pattern = "repeating" -> ((i - 1) % 3) + 1
    [] pattern = "late"      -> IF i <= CITED_SEARCH_RESULTS THEN 1 ELSE i

SynthesisInputs ==
  { [ AskedState EXCEPT
        !.subQueries      = <<SubQuery(1, "high")>>,
        !.iterationCount  = 1,
        !.currentNode     = "synthesizing",
        !.retrievedChunks = [ i \in 1..Len(c) |-> RetrievedChunk(c[i]) ],
        !.searchResults   = [ i \in 1..n |-> SearchResult(PatternUrl(pattern, i)) ] ] :
      c \in SeqsUpTo(ChunkUrls, 2), n \in 0..MaxResults, pattern \in UrlPatterns }

InitCite ==
  /\ channels \in SynthesisInputs
  /\ state = AskedState
  /\ pc = "synthesis"
  /\ collection = <<>>
  /\ invokes = 1
  /\ faults = 0
  /\ saved = NullReport
  /\ route = "none"
  /\ chunking = NoChunking
  /\ calls = <<>>

NextCite == RunSynthesis

SpecCite == InitCite /\ [][NextCite]_vars

\* the urls buildCitationMap looks at, in the order it looks at them
CitedUrls(st) ==
  [ i \in 1..Len(st.retrievedChunks) |-> st.retrievedChunks[i].url ] \o
  [ i \in 1..Min(CITED_SEARCH_RESULTS, Len(st.searchResults)) |-> st.searchResults[i].url ]

FirstAppearance(urls, u) ==
  CHOOSE i \in 1..Len(urls) : urls[i] = u /\ \A j \in 1..(i - 1) : urls[j] # u

TOP_K_PER_QUERY == 5

MAX_TOTAL_CHUNKS == 20

\* the most retrieval queries drawn for a pass
MaxQueries == 5

Content(text, pad, length) == [ text |-> text, pad |-> pad, length |-> length ]

\* content.slice(0, 100)
ContentPrefix(content) == <<content.pad, content.text>>

\* content.slice(0, 100).trim()
DedupKey(content) == content.text

\* how the texts of the answers are drawn: every answer its own text, every
\* query the same answers, or each query's answers shifted by one
TextPatterns == {"distinct", "same", "shifted"}

PatternText(pattern, q, j) ==
  CASE pattern = "distinct" -> TOP_K_PER_QUERY * (q - 1) + j
    [] pattern = "same"     -> j
    [] pattern = "shifted"  -> q + j - 1

\* how the scores are drawn: by the text alone, or by text and query (the
\* score is the similarity of the chunk to the query that found it)
ScorePatterns == {"rising", "falling", "level", "by query"}

PatternScore(pattern, q, text) ==
  CASE pattern = "rising"   -> text % 11
    [] pattern = "falling"  -> 10 - (text % 11)
    [] pattern = "level"    -> 5
    [] pattern = "by query" -> (text + q) % 11

\* the lengths drawn: all long, or every third text at the 50-character limit
\* and every seventh below it
LengthPatterns == {"long", "mixed"}

PatternLength(pattern, text) ==
  IF pattern = "long" THEN 120
  ELSE IF text % 3 = 0 THEN 50
       ELSE IF text % 7 = 0 THEN 30 ELSE 51

LookupResults ==
  { [ q \in 1..n |->
        [ j \in 1..TOP_K_PER_QUERY |->
            LET text == PatternText(tp, q, j)
            IN [ content        |-> Content(text, padded /\ q % 2 = 0, PatternLength(lp, text)),
                 url            |-> (text % 2) + 1,
                 relevanceScore |-> PatternScore(sp, q, text) ] ] ] :
      n \in 1..MaxQueries, tp \in TextPatterns, sp \in ScorePatterns,
      lp \in LengthPatterns, padded \in BOOLEAN }

\* retrievalNode's loops over allResults from query q, answer j on
RECURSIVE DedupChunks(_, _, _, _)
DedupChunks(allResults, q, j, acc) ==
  IF q > Len(allResults) THEN acc.dedupedChunks
  ELSE IF j > Len(allResults[q]) THEN DedupChunks(allResults, q + 1, 1, acc)
       ELSE LET chunk == allResults[q][j]
                key   == DedupKey(chunk.content)
            IN IF key \notin acc.seen /\ chunk.content.length > 50
               THEN DedupChunks(allResults, q, j + 1,
                                [ seen          |-> acc.seen \cup {key},
                                  dedupedChunks |-> Append(acc.dedupedChunks, chunk) ])
               ELSE DedupChunks(allResults, q, j + 1, acc)

\* sort((a, b) => b.relevanceScore - a.relevanceScore): stable, best first
InsertByRelevance(sorted, x) ==
  LET later == { i \in 1..Len(sorted) : sorted[i].relevanceScore < x.relevanceScore }
      at    == IF later = {} THEN Len(sorted) + 1
               ELSE CHOOSE i \in later : \A k \in later : i <= k
  IN SubSeq(sorted, 1, at - 1) \o <<x>> \o SubSeq(sorted, at, Len(sorted))

RECURSIVE SortByRelevance(_)
SortByRelevance(s) ==
  IF s = <<>> THEN <<>>
  ELSE InsertByRelevance(SortByRelevance(SubSeq(s, 1, Len(s) - 1)), s[Len(s)])

\* the ranking kept whole
TopChunks_NoSlice(allResults) ==
  SortByRelevance(DedupChunks(allResults, 1, 1, [ seen |-> {}, dedupedChunks |-> <<>> ]))

TopChunks(allResults) ==
  Slice(SortByRelevance(DedupChunks(allResults, 1, 1, [ seen |-> {}, dedupedChunks |-> <<>> ])),
        MAX_TOTAL_CHUNKS)

InitRetrieve ==
  /\ channels = [ AskedState EXCEPT !.subQueries = <<SubQuery(1, "high")>>,
                                      !.iterationCount = 1,
                                      !.currentNode = "retrieving" ]
  /\ state = AskedState
  /\ pc = "retrieval"
  /\ collection \in LookupResults
  /\ invokes = 1
  /\ faults = 0
  /\ saved = NullReport
  /\ route = "none"
  /\ chunking = NoChunking
  /\ calls = <<>>

RetrieveLookups ==
  /\ pc = "retrieval"
  /\ EngineStep("retrieval", retrievalNode(channels, FALSE, TopChunks(collection)))
  /\ UNCHANGED <<collection, invokes, faults, saved, route, chunking, calls>>

NextRetrieve == RetrieveLookups

SpecRetrieve == InitRetrieve /\ [][NextRetrieve]_vars

\* C15: the list a retrieval pass outputs is sorted by non-increasing
\* relevance score, has at most 20 entries, has no entry of 50 characters or
\* fewer, and no two of its entries have the same first 100 characters.
C15_RetrievalOutput ==
  pc = "synthesis" =>
    LET out == channels.retrievedChunks
    IN /\ Len(out) <= 20
       /\ \A i \in 1..Len(out) : out[i].content.length > 50
       /\ \A i, j \in 1..Len(out) :
            i < j => /\ out[i].relevanceScore >= out[j].relevanceScore
                     /\ ContentPrefix(out[i].content) # ContentPrefix(out[j].content)

\* C15 witness: more than 20 distinct chunks were looked up and 20 are output
C15_Witness ==
  /\ pc = "synthesis"
  /\ Len(channels.retrievedChunks) = 20
  /\ Len(TopChunks_NoSlice(collection)) > 20
  /\ channels.retrievedChunks[1].relevanceScore > channels.retrievedChunks[20].relevanceScore

\* C16: a retrieval pass starts with no chunk of an earlier pass in
\* retrievedChunks and, when it succeeds, leaves in retrievedChunks exactly
\* the list it ranked from the store; a retrieval that fails leaves the list
\* empty.  The caller receives that same list at the suspension.
C16_RetrievalReplaces ==
  [][ /\ pc = "retrieval" =>
           /\ channels.retrievedChunks = <<>>
           /\ IF channels'.currentNode = "synthesizing"
              THEN channels'.retrievedChunks \in RetrievalResults(collection)
              ELSE channels'.retrievedChunks = <<>>
      /\ pc = "synthesis" =>
           /\ channels'.retrievedChunks = channels.retrievedChunks
           /\ state'.retrievedChunks = channels.retrievedChunks ]_vars

\* C16 witness: the revision pass retrieved fewer chunks than the first pass's
\* store holds urls, after the first pass's result was reviewed
C16_Witness ==
  /\ invokes = 2
  /\ pc = "synthesis"
  /\ channels.currentNode = "synthesizing"
  /\ Len(channels.retrievedChunks) = 1
  /\ Cardinality(UrlsOf(collection)) = 2

(***************************************************************************)
(* chunkText on its own.  A text is the list of the lengths of the words   *)
(* text.split(/\s+/) gives, an empty first word standing for leading white *)
(* space; a chunk is the window of words it joins.                         *)
(***************************************************************************)
\* the longest text drawn, in words
MaxWords == 60

WordLengths == {1, 2, 6}

ChunkSizes == {4, 10, 50}

Overlaps == {0, 2, 20}

Texts ==
  { (IF lead THEN <<0>> ELSE <<>>) \o [ i \in 1..w |-> l ] :
      lead \in BOOLEAN, w \in 1..MaxWords, l \in WordLengths }

RECURSIVE SumSeq(_)
SumSeq(s) == IF s = <<>> THEN 0 ELSE s[1] + SumSeq(Tail(s))

\* words.join(" ").trim().length
TrimmedLength(window) ==
  LET full == { i \in 1..Len(window) : window[i] > 0 }
  IN IF full = {} THEN 0
     ELSE LET first == CHOOSE i \in full : \A k \in full : i <= k
              last  == CHOOSE i \in full : \A k \in full : i >= k
          IN SumSeq(SubSeq(window, first, last)) + (last - first)

\* the loop keeping the windows of 50 characters too
RECURSIVE ChunkLoop_FromFifty(_, _, _, _, _)
ChunkLoop_FromFifty(words, chunkSize, overlap, i, chunks) ==
  IF ~(i < Len(words)) THEN chunks
  ELSE LET chunk  == SubSeq(words, i + 1, Min(i + chunkSize, Len(words)))
           pushed == IF TrimmedLength(chunk) >= 50 THEN Append(chunks, chunk) ELSE chunks
       IN IF i + chunkSize >= Len(words) THEN pushed
          ELSE ChunkLoop_FromFifty(words, chunkSize, overlap, i + (chunkSize - overlap), pushed)

\* chunkText's for loop from word offset i on
RECURSIVE ChunkLoop(_, _, _, _, _)
ChunkLoop(words, chunkSize, overlap, i, chunks) ==
  IF ~(i < Len(words)) THEN chunks
  ELSE LET chunk  == SubSeq(words, i + 1, Min(i + chunkSize, Len(words)))
           pushed == IF TrimmedLength(chunk) > 50 THEN Append(chunks, chunk) ELSE chunks
       IN IF i + chunkSize >= Len(words) THEN pushed
          ELSE ChunkLoop(words, chunkSize, overlap, i + (chunkSize - overlap), pushed)

\* the windows kept whatever their length
chunkText_KeepAll(words, chunkSize, overlap) ==
  LET step == chunkSize - overlap
      last == CHOOSE k \in 0..Len(words) :
                /\ k * step + chunkSize >= Len(words)
                /\ \A j \in 0..(k - 1) : j * step + chunkSize < Len(words)
  IN [ k \in 1..(last + 1) |->
         SubSeq(words, (k - 1) * step + 1, Min((k - 1) * step + chunkSize, Len(words))) ]

chunkText(words, chunkSize, overlap) == ChunkLoop(words, chunkSize, overlap, 0, <<>>)

InitChunk ==
  /\ channels = DefaultState
  /\ state = AskedState
  /\ pc = "chunkText"
  /\ collection = <<>>
  /\ invokes = 0
  /\ faults = 0
  /\ saved = NullReport
  /\ route = "none"
  /\ \E words \in Texts, chunkSize \in ChunkSizes, overlap \in Overlaps :
       /\ overlap < chunkSize
       /\ chunking = [ words |-> words, chunkSize |-> chunkSize, overlap |-> overlap,
                      chunks |-> <<>>, done |-> FALSE ]
  /\ calls = <<>>

ChunkPage ==
  /\ pc = "chunkText"
  /\ ~chunking.done
  /\ chunking' = [ chunking EXCEPT
                     !.chunks = chunkText(chunking.words, chunking.chunkSize, chunking.overlap),
                     !.done   = TRUE ]
  /\ UNCHANGED <<channels, state, pc, collection, invokes, faults, saved, route, calls>>

NextChunk == ChunkPage

SpecChunk == InitChunk /\ [][NextChunk]_vars

Max(a, b) == IF a >= b THEN a ELSE b

\* the k-th window (k from 0) of W words for window size S and overlap O
WindowAt(words, S, O, k) ==
  SubSeq(words, k * (S - O) + 1, Min(k * (S - O) + S, Len(words)))

\* the windows of s whose trimmed text is longer than 50 characters, in order
RECURSIVE SelectWindows(_)
SelectWindows(s) ==
  IF s = <<>> THEN <<>>
  ELSE IF TrimmedLength(s[1]) > 50
       THEN <<s[1]>> \o SelectWindows(Tail(s))
       ELSE SelectWindows(Tail(s))

\* C17 as stated: chunkText returns ceil((W - O) / (S - O)) windows.
C17_WindowCountFormula ==
  chunking.done =>
    Len(chunking.chunks) =
      CeilDiv(Len(chunking.words) - chunking.overlap, chunking.chunkSize - chunking.overlap)

\* C17 amended: chunkText forms max(1, ceil((W - O) / (S - O))) windows, the
\* k-th starting at word k * (S - O) and the last one being the trailing
\* remainder, and returns, in order, those whose trimmed text is longer than
\* 50 characters.
C17_WindowsFormed ==
  chunking.done =>
    LET W == Len(chunking.words)
        S == chunking.chunkSize
        O == chunking.overlap
        n == Max(1, CeilDiv(W - O, S - O))
    IN chunking.chunks =
         SelectWindows([ k \in 1..n |-> WindowAt(chunking.words, S, O, k - 1) ])

\* C17 witness: a text of fewer words than the overlap gives one window
C17_Witness ==
  /\ chunking.done
  /\ chunking.chunkSize = 50
  /\ chunking.overlap = 20
  /\ Len(chunking.words) = 10
  /\ Len(chunking.chunks) = 1

\* C18 as stated: every window chunkText returns has at least 50 words.
C18_WindowsOfFiftyWords ==
  chunking.done =>
    \A k \in 1..Len(chunking.chunks) : Len(chunking.chunks[k]) >= 50

\* C18 amended: every window chunkText returns has a trimmed text of more
\* than 50 characters, and every window formed with such a text is returned.
C18_WindowsOverFiftyCharacters ==
  chunking.done =>
    /\ \A k \in 1..Len(chunking.chunks) : TrimmedLength(chunking.chunks[k]) > 50
    /\ \A k \in 0..Len(chunking.words) :
         (k = 0 \/ (k - 1) * (chunking.chunkSize - chunking.overlap) + chunking.chunkSize
                     < Len(chunking.words)) =>
           LET window == WindowAt(chunking.words, chunking.chunkSize, chunking.overlap, k)
           IN TrimmedLength(window) > 50 =>
                \E j \in 1..Len(chunking.chunks) : chunking.chunks[j] = window

\* C18 witness: a window of fewer than 50 words and more than 50 characters
\* is returned, and a shorter remainder is not
C18_Witness ==
  /\ chunking.done
  /\ Len(chunking.chunks) = 2
  /\ Len(chunking.chunks[1]) = 10
  /\ Len(chunking.chunks[2]) = 8
  /\ chunking.overlap = 2
  /\ TrimmedLength(chunking.chunks[2]) > 50

(***************************************************************************)
(* reasoningNode on its own: whatever list of sub-queries the language     *)
(* model's answer parses to under DecomposeResponseSchema, an array of any *)
(* length whose ids are uuids the model chose.                             *)
(***************************************************************************)
\* the longest sub-query list drawn
MaxSubQueries == 7

IdPatterns == {"distinct", "repeated"}

PatternId(pattern, i) == IF pattern = "distinct" THEN i ELSE ((i - 1) % 2) + 1

PriorityPatterns == {"high", "mixed", "low"}

PatternPriority(pattern, i) ==
  CASE pattern = "high"  -> "high"
    [] pattern = "low"   -> "low"
    [] pattern = "mixed" -> IF i % 3 = 1 THEN "high" ELSE IF i % 3 = 2 THEN "medium" ELSE "low"

ParsedResponses ==
  { [ i \in 1..n |-> SubQuery(PatternId(ip, i), PatternPriority(pp, i)) ] :
      n \in 0..MaxSubQueries, ip \in IdPatterns, pp \in PriorityPatterns }

InitDecompose ==
  /\ \E n \in 0..MAX_ITERATIONS :
       channels = [ AskedState EXCEPT !.iterationCount = n ]
  /\ state = AskedState
  /\ pc = "reasoning"
  /\ collection = <<>>
  /\ invokes = 1
  /\ faults = 0
  /\ saved = NullReport
  /\ route = "none"
  /\ chunking = NoChunking
  /\ calls = <<>>

Decompose ==
  /\ pc = "reasoning"
  /\ \E parsed \in BOOLEAN, subQueries \in ParsedResponses :
       /\ ~parsed => subQueries = <<>>
       /\ EngineStep("reasoning", reasoningNode(channels, parsed, subQueries))
  /\ UNCHANGED <<collection, invokes, faults, saved, route, chunking, calls>>

NextDecompose == Decompose

SpecDecompose == InitDecompose /\ [][NextDecompose]_vars

\* C19: a decomposition that succeeds leaves between 3 and 6 sub-queries
\* whose ids are pairwise distinct.
C19_SubQueryCount ==
  (pc = "search" /\ channels.currentNode = "searching") =>
    /\ Len(channels.subQueries) >= 3
    /\ Len(channels.subQueries) <= 6
    /\ \A i, j \in 1..Len(channels.subQueries) :
         i # j => channels.subQueries[i].id # channels.subQueries[j].id

\* C20: with a blank research question the session never gets past main's
\* check: the store is not cleared, the graph is never invoked, no stage
\* (and so no language-model, search, fetch, embedding or store call) runs,
\* and main ends with its empty-question failure.
C20_BlankQuestionRejected ==
  IsBlank(state.researchQuestion) =>
    /\ pc \in {"main", "exit_invalid_input"}
    /\ invokes = 0
    /\ faults = 0
    /\ collection = <<>>
    /\ channels = DefaultState

\* C20 witness: a question of white space only has been refused
C20_Witness ==
  /\ pc = "exit_invalid_input"
  /\ state.researchQuestion = <<" ", " ">>

(***************************************************************************)
(* searchNode on its own: the sub-queries and what each executeSearch call *)
(* does are drawn, and calls records the executeSearch calls of the pass.  *)
(***************************************************************************)
Priorities == {"high", "medium", "low"}

\* the longest sub-query list drawn for a search pass
MaxSearched == 3

SearchedSubQueries ==
  { [ i \in 1..Len(ps) |-> SubQuery(i, ps[i]) ] : ps \in SeqsUpTo(Priorities, MaxSearched) \ {<<>>} }

\* the executeSearch calls of searchNode's loop: one per iteration, each
\* inside its own try
SearchCalls(st, outcomes) ==
  IF Len(st.subQueries) = 0 THEN <<>>
  ELSE LET prioritized == Prioritized(st.subQueries)
       IN [ k \in 1..Len(prioritized) |->
              [ subQuery |-> prioritized[k].id,
                priority |-> prioritized[k].priority,
                ok       |-> outcomes[k].ok,
                results  |-> outcomes[k].results ] ]

InitSearch ==
  /\ \E subQueries \in SearchedSubQueries, found \in { <<>>, <<SearchResult(1)>> } :
       channels = [ AskedState EXCEPT !.subQueries     = subQueries,
                                      !.searchResults  = found,
                                      !.iterationCount = 1,
                                      !.currentNode    = "searching" ]
  /\ state = AskedState
  /\ pc = "search"
  /\ collection = <<>>
  /\ invokes = 1
  /\ faults = 0
  /\ saved = NullReport
  /\ route = "none"
  /\ chunking = NoChunking
  /\ calls = <<>>

SearchPass ==
  /\ pc = "search"
  /\ \E outcomes \in SearchPasses(Len(channels.subQueries)) :
       /\ EngineStep("search", searchNode(channels, outcomes))
       /\ calls' = SearchCalls(channels, outcomes)
  /\ UNCHANGED <<collection, invokes, faults, saved, route, chunking>>

NextSearch == SearchPass

SpecSearch == InitSearch /\ [][NextSearch]_vars

PriorityRank(p) == CASE p = "high" -> 0 [] p = "medium" -> 1 [] p = "low" -> 2

C22_ItemFailuresRecorded ==
  [][ (pc = "search" /\ \E k \in 1..Len(calls') : ~calls'[k].ok) =>
        Len(channels'.errors) > Len(channels.errors) ]_vars

(***************************************************************************)
(* scraperNode on its own: the accumulated search results (more of them    *)
(* than the cap, with tied and missing scores), the pages scraped before   *)
(* and how each fetch ends are drawn; calls records the urls handed to     *)
(* scrapeUrls with the outcome of each fetch.                              *)
(***************************************************************************)
\* the longest list of accumulated search results drawn for a scrape pass
MaxFound == 17

FoundUrlPatterns == {"distinct", "paired"}

FoundScorePatterns == {"rising", "falling", "level", "partial"}

FoundResult(up, sp, i) ==
  LET u == IF up = "distinct" THEN i ELSE (i + 1) \div 2
  IN CASE sp = "rising"  -> [ url |-> u, score |-> i % 5 ]
       [] sp = "falling" -> [ url |-> u, score |-> 5 - (i % 5) ]
       [] sp = "level"   -> [ url |-> u, score |-> 5 ]
       [] sp = "partial" -> IF i % 3 = 0 THEN [ url |-> u ]
                            ELSE [ url |-> u, score |-> i % 5 ]

\* the urls scraped by earlier passes, of those found: none, the first two,
\* or the odd ones
ScrapedBefore == { {}, {1, 2}, { u \in 1..MaxFound : u % 2 = 1 } }

FetchPatterns == {"all ok", "all error", "alternate", "some short", "mixed"}

\* every way a fetch ends: an HTTP or network error, a timeout (the abort
\* rejects the fetch), a content type other than text/html, and pages of
\* 40, 50, 51 and 60 words
PageOutcomes == <<"error", "ok", "timeout", "fifty", "not html", "fifty one", "short">>

PatternFetch(fp, u) ==
  CASE fp = "all ok"     -> "ok"
    [] fp = "all error"  -> "error"
    [] fp = "alternate"  -> IF u % 2 = 1 THEN "ok" ELSE "error"
    [] fp = "some short" -> IF u % 3 = 0 THEN "short" ELSE "ok"
    [] fp = "mixed"      -> PageOutcomes[(u % Len(PageOutcomes)) + 1]

\* the set S as a list in increasing order
RECURSIVE SetToSeq(_)
SetToSeq(S) ==
  IF S = {} THEN <<>>
  ELSE LET least == CHOOSE x \in S : \A y \in S : x <= y
       IN <<least>> \o SetToSeq(S \ {least})

\* the session before a scrape pass: n results found, of which those with a
\* url in scraped were scraped by earlier passes
ScrapeInput(n, up, sp, scraped) ==
  LET found  == [ i \in 1..n |-> FoundResult(up, sp, i) ]
      before == SetToSeq(scraped \cap UrlsOf(found))
  IN [ AskedState EXCEPT
         !.subQueries     = <<SubQuery(1, "high")>>,
         !.iterationCount = 1,
         !.currentNode    = "scraping",
         !.searchResults  = found,
         !.scrapedContent = [ i \in 1..Len(before) |-> scrapeUrl(before[i], "ok") ] ]

ScrapeInputs ==
  { ScrapeInput(n, up, sp, scraped) :
      n \in 1..MaxFound, up \in FoundUrlPatterns, sp \in FoundScorePatterns,
      scraped \in ScrapedBefore }

\* the fetches scraperNode asks scrapeUrls for, with how each ends
ScrapeCalls(st, fetch) ==
  IF Len(st.searchResults) = 0 THEN <<>>
  ELSE LET urls == urlsToScrape(st)
       IN [ k \in 1..Len(urls) |-> [ url |-> urls[k], outcome |-> fetch[urls[k]] ] ]

InitScrape ==
  /\ channels \in ScrapeInputs
  /\ state = AskedState
  /\ pc = "scraper"
  /\ collection = <<>>
  /\ invokes = 1
  /\ faults = 0
  /\ saved = NullReport
  /\ route = "none"
  /\ chunking = NoChunking
  /\ calls = <<>>

ScrapePass ==
  /\ pc = "scraper"
  /\ \E fp \in FetchPatterns :
       LET fetch == [ u \in Range(urlsToScrape(channels)) |-> PatternFetch(fp, u) ]
       IN /\ EngineStep("scraper", scraperNode(channels, fetch))
          /\ calls' = ScrapeCalls(channels, fetch)
  /\ UNCHANGED <<collection, invokes, faults, saved, route, chunking>>

NextScrape == ScrapePass

SpecScrape == InitScrape /\ [][NextScrape]_vars

\* the positions of the search results whose url has not been scraped
Unscraped(st) ==
  { p \in 1..Len(st.searchResults) : st.searchResults[p].url \notin UrlsOf(st.scrapedContent) }

\* how many unscraped results come before the one at p: those with a higher
\* score (a missing score counting as 0) and, at equal score, those found
\* earlier
RankAmongUnscraped(st, p) ==
  Cardinality({ q \in Unscraped(st) :
                  \/ ScoreOrZero(st.searchResults[q]) > ScoreOrZero(st.searchResults[p])
                  \/ /\ ScoreOrZero(st.searchResults[q]) = ScoreOrZero(st.searchResults[p])
                     /\ q < p })

\* C23: the urls a scrape pass fetches are those of the (up to) 15
\* highest-scored search results whose url is not in scrapedContent, in
\* descending score order; none of them is in scrapedContent and there are
\* never more than 15.
C23_ScrapeSelection ==
  [][ pc = "scraper" =>
        /\ Len(calls') = Min(15, Cardinality(Unscraped(channels)))
        /\ \A k \in 1..Len(calls') :
             /\ calls'[k].url \notin UrlsOf(channels.scrapedContent)
             /\ \E p \in Unscraped(channels) :
                  /\ RankAmongUnscraped(channels, p) = k - 1
                  /\ channels.searchResults[p].url = calls'[k].url ]_vars

\* C23 witness: more than 15 unscraped results, two of them scraped before,
\* 15 fetched
C23_Witness ==
  /\ pc = "vector_store"
  /\ Len(calls) = 15
  /\ Len(channels.searchResults) = 17
  /\ calls[1].url # 1
  /\ \A k \in 1..15 : calls[k].url \notin {1, 2}

(***************************************************************************)
(* scrapeUrls step by step.  Promise.all(batch.map(scrapeUrl)) starts      *)
(* every fetch of a batch in one synchronous step; each fetch then         *)
(* resolves on its own (scrapeUrl catches its own failure and never        *)
(* rejects); the loop goes on when Promise.all resolves.  calls holds one  *)
(* record per fetch started, in the order of the urls.                     *)
(***************************************************************************)
CONCURRENCY == 3

\* the longest list of urls drawn for the step-by-step scrape
MaxFetched == 7

FetchInputs ==
  { [ AskedState EXCEPT
        !.subQueries     = <<SubQuery(1, "high")>>,
        !.iterationCount = 1,
        !.currentNode    = "scraping",
        !.searchResults  = [ i \in 1..n |-> FoundResult("distinct", "rising", i) ] ] :
      n \in 1..MaxFetched }

\* batch = urls.slice(i, i + concurrency), i the number of urls handled
BatchAfter(urls, i) == SubSeq(urls, i + 1, Min(i + CONCURRENCY, Len(urls)))

\* the batch a fetch belongs to, from its position in the url list
BatchNumber(k) == ((k - 1) \div CONCURRENCY) + 1

\* the loop goes on as soon as one fetch of the batch has resolved
BatchSettled_Any(cs) ==
  cs = <<>> \/ \E k \in 1..Len(cs) : cs[k].status = "resolved"

\* await Promise.all(...): every fetch started so far has resolved
BatchSettled(cs) ==
  \A k \in 1..Len(cs) : cs[k].status = "resolved"

InitFetch ==
  /\ channels \in FetchInputs
  /\ state = AskedState
  /\ pc = "scraper"
  /\ collection = <<>>
  /\ invokes = 1
  /\ faults = 0
  /\ saved = NullReport
  /\ route = "none"
  /\ chunking = NoChunking
  /\ calls = <<>>

StartBatch ==
  /\ pc = "scraper"
  /\ BatchSettled(calls)
  /\ Len(calls) < Len(urlsToScrape(channels))
  /\ LET batch == BatchAfter(urlsToScrape(channels), Len(calls))
     IN calls' = calls \o [ j \in 1..Len(batch) |->
                              [ url |-> batch[j], batch |-> BatchNumber(Len(calls) + j),
                                status |-> "in flight", outcome |-> "pending" ] ]
  /\ UNCHANGED <<channels, state, pc, collection, invokes, faults, saved, route, chunking>>

ResolveFetch ==
  /\ pc = "scraper"
  /\ \E k \in 1..Len(calls), outcome \in FetchOutcomes :
       /\ calls[k].status = "in flight"
       /\ calls' = [ calls EXCEPT ![k].status = "resolved", ![k].outcome = outcome ]
  /\ UNCHANGED <<channels, state, pc, collection, invokes, faults, saved, route, chunking>>

FinishScrape ==
  /\ pc = "scraper"
  /\ Len(calls) = Len(urlsToScrape(channels))
  /\ \A k \in 1..Len(calls) : calls[k].status = "resolved"
  /\ LET fetch == [ u \in Range(urlsToScrape(channels)) |->
                      calls[CHOOSE k \in 1..Len(calls) : calls[k].url = u].outcome ]
     IN EngineStep("scraper", scraperNode(channels, fetch))
  /\ UNCHANGED <<collection, invokes, faults, saved, route, chunking, calls>>

NextFetch == StartBatch \/ ResolveFetch \/ FinishScrape

SpecFetch == InitFetch /\ [][NextFetch]_vars

InFlight == { k \in 1..Len(calls) : calls[k].status = "in flight" }

\* C24: at most 3 fetches are in flight at any time, and while a fetch of
\* one batch is in flight every fetch of the earlier batches has resolved,
\* as a success or as a failure; a batch starts only after the one before
\* it has resolved entirely.
C24_BatchedFetches ==
  /\ Cardinality(InFlight) <= 3
  /\ \A j \in 1..Len(calls), k \in 1..Len(calls) :
       calls[j].batch < calls[k].batch => calls[j].status = "resolved"
  /\ \A k \in 1..Len(calls) :
       /\ calls[k].batch = ((k - 1) \div 3) + 1
       /\ pc = "scraper" => calls[k].url = urlsToScrape(channels)[k]

\* C24 witness: the third batch is in flight after a first batch in which
\* one fetch failed and one succeeded
C24_Witness ==
  /\ Len(calls) = 7
  /\ calls[7].status = "in flight"
  /\ calls[1].outcome = "error"
  /\ calls[2].outcome = "ok"

\* the fetches of the pass whose page counts more than 50 words
KeptCalls(cs) == SelectSeq(cs, LAMBDA c : c.outcome \in {"ok", "fifty one"})

\* C25: every page in scrapedContent has no error and more than 50 words.
\* A scrape pass adds exactly the pages whose own fetch succeeded with more
\* than 50 words, whatever happened to the other fetches of the pass: a page
\* that fails, times out, is not HTML or has 50 words or fewer is dropped,
\* and the stage goes on to storing without recording an error.
C25_OnlySuccessfulPagesKept ==
  [][ pc = "scraper" =>
        /\ \A i \in 1..Len(channels'.scrapedContent) :
             /\ ~channels'.scrapedContent[i].error
             /\ channels'.scrapedContent[i].wordCount > 50
        /\ Len(channels'.scrapedContent) =
             Len(channels.scrapedContent) + Len(KeptCalls(calls'))
        /\ \A i \in 1..Len(KeptCalls(calls')) :
             channels'.scrapedContent[Len(channels.scrapedContent) + i].url
               = KeptCalls(calls')[i].url
        /\ channels'.currentNode = "storing"
        /\ channels'.errors = channels.errors ]_vars

\* C25 witness: a pass in which fetches failed, timed out, were not HTML and
\* gave 50 words, and in which other pages were kept
C25_Witness ==
  /\ pc = "vector_store"
  /\ \A o \in {"error", "timeout", "not html", "fifty", "short"} :
       \E k \in 1..Len(calls) : calls[k].outcome = o
  /\ Len(KeptCalls(calls)) >= 2
  /\ Len(channels.scrapedContent) >= 2
  /\ channels.currentNode = "storing"

(***************************************************************************)
(* A scrape pass followed by vectorStoreNode.  The pass is a first pass    *)
(* (nothing scraped, empty store) or a revision pass, where scrapedContent *)
(* holds the pages of the earlier pass and the store their chunks.         *)
(***************************************************************************)
\* the store after the pages scraped before were indexed: one chunk a page
StoredBefore(pages) == [ j \in 1..Len(pages) |-> [ id |-> j, url |-> pages[j].url ] ]

IndexInputs ==
  { [ st EXCEPT !.storedChunkIds = [ j \in 1..Len(st.scrapedContent) |-> j ],
                !.iterationCount = IF Len(st.scrapedContent) = 0 THEN 1 ELSE 2 ] :
      st \in ScrapeInputs }

InitIndex ==
  /\ channels \in IndexInputs
  /\ state = AskedState
  /\ pc = "scraper"
  /\ collection = StoredBefore(channels.scrapedContent)
  /\ invokes = 1
  /\ faults = 0
  /\ saved = NullReport
  /\ route = "none"
  /\ chunking = NoChunking
  /\ calls = <<>>

NextIndex == ScrapePass \/ RunVectorStore

SpecIndex == InitIndex /\ [][NextIndex]_vars

\* every fetch of the pass failed, and there was at least one
AllScrapesFailed ==
  /\ Len(calls) > 0
  /\ \A k \in 1..Len(calls) : calls[k].outcome = "error"

\* C26: after a scrape pass in which every fetch failed, in a first pass
\* or in a revision pass, the index stage persists no chunk, leaves
\* storedChunkIds unchanged and hands over to retrieval.
C26_AllScrapesFailIndexNoop ==
  [][ (pc = "vector_store" /\ AllScrapesFailed) =>
        /\ collection' = collection
        /\ channels'.storedChunkIds = channels.storedChunkIds
        /\ pc' = "retrieval" ]_vars

(***************************************************************************)
(* retrievalNode step by step.  queries.map(retrieveFromVectorDB) issues    *)
(* every query in one synchronous step; each query then completes or fails *)
(* on its own; when Promise.all resolves the results are merged, and when   *)
(* it rejects the node's catch records the failure.  calls holds one       *)
(* record per query issued.  A query's text is the question, the text of   *)
(* the sub-query with the given id, or the feedback text.                  *)
(***************************************************************************)
QuestionQuery == [ kind |-> "question", id |-> 0, text |-> "" ]

SubQueryQuery(sq) == [ kind |-> "subQuery", id |-> sq.id, text |-> "" ]

FeedbackQuery(feedback) == [ kind |-> "feedback", id |-> 0, text |-> feedback ]

\* every medium-priority sub-query queried
RetrievalQueries_AllMedium(st) ==
  LET high   == SelectSeq(st.subQueries, LAMBDA sq : sq.priority = "high")
      medium == SelectSeq(st.subQueries, LAMBDA sq : sq.priority = "medium")
  IN <<QuestionQuery>>
       \o [ i \in 1..Len(high) |-> SubQueryQuery(high[i]) ]
       \o [ i \in 1..Len(medium) |-> SubQueryQuery(medium[i]) ]
       \o (IF st.humanFeedback.present /\ st.humanFeedback.feedback # ""
           THEN <<FeedbackQuery(st.humanFeedback.feedback)>> ELSE <<>>)

\* the list `queries`
RetrievalQueries(st) ==
  LET high   == SelectSeq(st.subQueries, LAMBDA sq : sq.priority = "high")
      medium == Slice(SelectSeq(st.subQueries, LAMBDA sq : sq.priority = "medium"), 2)
  IN <<QuestionQuery>>
       \o [ i \in 1..Len(high) |-> SubQueryQuery(high[i]) ]
       \o [ i \in 1..Len(medium) |-> SubQueryQuery(medium[i]) ]
       \o (IF st.humanFeedback.present /\ st.humanFeedback.feedback # ""
           THEN <<FeedbackQuery(st.humanFeedback.feedback)>> ELSE <<>>)

\* a first pass has no feedback; a revision pass follows a rejection
QueryInputs ==
  { [ AskedState EXCEPT
        !.subQueries     = subQueries,
        !.iterationCount = IF feedback = NullFeedback THEN 1 ELSE 2,
        !.humanFeedback  = feedback,
        !.currentNode    = "retrieving" ] :
      subQueries \in SearchedSubQueries \cup {<<>>},
      feedback \in {NullFeedback} \cup
                   { [ present |-> TRUE, approved |-> FALSE, feedback |-> StoredFeedback(f) ] :
                       f \in Feedbacks } }

InitQuery ==
  /\ channels \in QueryInputs
  /\ state = AskedState
  /\ pc = "retrieval"
  /\ collection = <<[ id |-> 1, url |-> 1 ]>>
  /\ invokes = 1
  /\ faults = 0
  /\ saved = NullReport
  /\ route = "none"
  /\ chunking = NoChunking
  /\ calls = <<>>

IssueQueries ==
  /\ pc = "retrieval"
  /\ calls = <<>>
  /\ LET queries == RetrievalQueries(channels)
     IN calls' = [ k \in 1..Len(queries) |-> [ query |-> queries[k], status |-> "pending" ] ]
  /\ UNCHANGED <<channels, state, pc, collection, invokes, faults, saved, route, chunking>>

CompleteQuery ==
  /\ pc = "retrieval"
  /\ \E k \in 1..Len(calls), status \in {"done", "failed"} :
       /\ calls[k].status = "pending"
       /\ calls' = [ calls EXCEPT ![k].status = status ]
  /\ UNCHANGED <<channels, state, pc, collection, invokes, faults, saved, route, chunking>>

\* Promise.all resolved: the results are merged
MergeResults ==
  /\ pc = "retrieval"
  /\ calls # <<>>
  /\ \A k \in 1..Len(calls) : calls[k].status = "done"
  /\ \E topChunks \in RetrievalResults(collection) :
       EngineStep("retrieval", retrievalNode(channels, FALSE, topChunks))
  /\ UNCHANGED <<collection, invokes, faults, saved, route, chunking, calls>>

\* Promise.all rejected with the first failure
RetrievalFails ==
  /\ pc = "retrieval"
  /\ \E k \in 1..Len(calls) : calls[k].status = "failed"
  /\ EngineStep("retrieval", retrievalNode(channels, TRUE, <<>>))
  /\ UNCHANGED <<collection, invokes, faults, saved, route, chunking, calls>>

NextQuery == IssueQueries \/ CompleteQuery \/ MergeResults \/ RetrievalFails

SpecQuery == InitQuery /\ [][NextQuery]_vars

\* how many of the queries issued ask for q
TimesQueried(cs, q) == Cardinality({ k \in 1..Len(cs) : cs[k].query = q })

\* the positions of the medium-priority sub-queries before position i
MediumBefore(st, i) == { j \in 1..(i - 1) : st.subQueries[j].priority = "medium" }

\* C27: a retrieval pass issues exactly one store query for the research
\* question, one for every high-priority sub-query, one for each of the
\* first 2 medium-priority sub-queries, one for the feedback text exactly
\* when the pass is a revision pass, and none for anything else; results
\* are merged only when every query has completed.
C27_RetrievalQuerySet ==
  [][ /\ (pc = "retrieval" /\ calls = <<>> /\ calls' # <<>>) =>
           /\ TimesQueried(calls', QuestionQuery) = 1
           /\ \A i \in 1..Len(channels.subQueries) :
                LET sq == channels.subQueries[i]
                IN TimesQueried(calls', [ kind |-> "subQuery", id |-> sq.id, text |-> "" ])
                     = IF \/ sq.priority = "high"
                          \/ /\ sq.priority = "medium"
                             /\ Cardinality(MediumBefore(channels, i)) < 2
                       THEN 1 ELSE 0
           /\ \A f \in { "add more detail", "Please improve the report", "" } :
                TimesQueried(calls', [ kind |-> "feedback", id |-> 0, text |-> f ])
                  = IF channels.iterationCount > 1 /\ channels.humanFeedback.feedback = f
                    THEN 1 ELSE 0
           /\ \A k \in 1..Len(calls') :
                \/ calls'[k].query.kind = "question"
                \/ /\ calls'[k].query.kind = "subQuery"
                   /\ \E i \in 1..Len(channels.subQueries) :
                        channels.subQueries[i].id = calls'[k].query.id
                \/ /\ calls'[k].query.kind = "feedback"
                   /\ calls'[k].query.text = channels.humanFeedback.feedback
      /\ (pc = "retrieval" /\ channels'.currentNode = "synthesizing") =>
           /\ calls # <<>>
           /\ \A k \in 1..Len(calls) : calls[k].status = "done" ]_vars

\* C27 witness: a revision pass with three medium-priority sub-queries has
\* merged the results of its four queries
C27_Witness ==
  /\ pc = "synthesis"
  /\ channels.currentNode = "synthesizing"
  /\ Len(channels.subQueries) = 3
  /\ \A i \in 1..3 : channels.subQueries[i].priority = "medium"
  /\ channels.humanFeedback.present
  /\ Len(calls) = 4

(***************************************************************************)
(* The user message of the synthesis prompt, as the parts interpolated     *)
(* into SYNTHESIZE_USER: the question, and the revision block with the     *)
(* feedback text (<<>> when the block is left out).                        *)
(***************************************************************************)
\* the revision block written without looking at the feedback
SynthesisPrompt_Unconditional(st) ==
  [ question |-> st.researchQuestion,
    feedback |-> IF st.humanFeedback.present THEN <<st.humanFeedback.feedback>>
                 ELSE <<"undefined">> ]

SynthesisPrompt(st) ==
  LET \* humanFeedback && !humanFeedback.approved ? humanFeedback.feedback : undefined
      feedbackText == IF st.humanFeedback.present /\ ~st.humanFeedback.approved
                      THEN <<st.humanFeedback.feedback>> ELSE <<>>
  IN [ question |-> st.researchQuestion,
       \* ${feedback ? `... User feedback: "${feedback}" ...` : ""}
       feedback |-> IF feedbackText # <<>> /\ feedbackText[1] # "" THEN feedbackText ELSE <<>> ]

(***************************************************************************)
(* Retrieval and synthesis over a store that may be empty.  calls records  *)
(* what col.count() returned to the pass (-1: the store could not be       *)
(* reached and nothing was counted) and each call of the language model.   *)
(***************************************************************************)
\* what can go wrong in retrieveFromVectorDB: nothing, getCollection or
\* col.count() throws, embedQuery or col.query throws
StoreFaults == {"none", "unreachable", "embedding"}

\* the stores drawn: empty, one chunk, two chunks of two pages
Stores == { <<>>, <<[ id |-> 1, url |-> 1 ]>>, <<[ id |-> 1, url |-> 1 ], [ id |-> 2, url |-> 2 ]>> }

\* the query embedded before the count is looked at
retrieveFromVectorDB_EmbedFirst(coll, fault) ==
  IF fault = "unreachable" THEN [ threw |-> TRUE, count |-> -1, results |-> {<<>>} ]
  ELSE IF fault = "embedding" THEN [ threw |-> TRUE, count |-> Len(coll), results |-> {<<>>} ]
  ELSE [ threw |-> FALSE, count |-> Len(coll), results |-> RetrievalResults(coll) ]

\* [threw, count, results]: results is the set of lists the pass can end
\* up with
retrieveFromVectorDB(coll, fault) ==
  IF fault = "unreachable" THEN [ threw |-> TRUE, count |-> -1, results |-> {<<>>} ]
  ELSE IF Len(coll) = 0 THEN [ threw |-> FALSE, count |-> 0, results |-> {<<>>} ]
  ELSE IF fault = "embedding" THEN [ threw |-> TRUE, count |-> Len(coll), results |-> {<<>>} ]
  ELSE [ threw |-> FALSE, count |-> Len(coll), results |-> RetrievalResults(coll) ]

\* llm.invoke(messages): reached only past the check of retrievedChunks
SynthesisCalls(st) ==
  IF Len(st.retrievedChunks) = 0 THEN <<>>
  ELSE <<[ kind |-> "llm", count |-> Len(st.retrievedChunks), prompt |-> SynthesisPrompt(st) ]>>

InitEmpty ==
  /\ channels \in QueryInputs
  /\ state = AskedState
  /\ pc = "retrieval"
  /\ collection \in Stores
  /\ invokes = 1
  /\ faults = 0
  /\ saved = NullReport
  /\ route = "none"
  /\ chunking = NoChunking
  /\ calls = <<>>

RetrieveStore ==
  /\ pc = "retrieval"
  /\ \E fault \in StoreFaults :
       LET r == retrieveFromVectorDB(collection, fault)
       IN /\ \E topChunks \in r.results :
               EngineStep("retrieval", retrievalNode(channels, r.threw, topChunks))
          /\ calls' = <<[ kind |-> "count", count |-> r.count ]>>
  /\ UNCHANGED <<collection, invokes, faults, saved, route, chunking>>

Synthesize ==
  /\ pc = "synthesis"
  /\ \E parsed \in BOOLEAN :
       EngineStep("synthesis", synthesisNode(channels, parsed))
  /\ calls' = calls \o SynthesisCalls(channels)
  /\ UNCHANGED <<collection, invokes, faults, saved, route, chunking>>

NextEmpty == RetrieveStore \/ Synthesize

SpecEmpty == InitEmpty /\ [][NextEmpty]_vars

\* C28: when the store's count is 0, retrieval outputs an empty list and
\* records no error; the synthesis that follows records the failure "No
\* retrieved chunks available for synthesis", produces no draft and calls
\* no language model.
C28_EmptyStore ==
  [][ /\ (pc = "retrieval" /\ calls'[1].count = 0) =>
           /\ channels'.retrievedChunks = <<>>
           /\ channels'.errors = channels.errors
           /\ channels'.currentNode = "synthesizing"
           /\ pc' = "synthesis"
      /\ (pc = "synthesis" /\ calls[1].count = 0) =>
           /\ channels'.errors
                = channels.errors \o <<"No retrieved chunks available for synthesis">>
           /\ channels'.currentNode = "error"
           /\ channels'.draftReport = channels.draftReport
           /\ \A k \in 1..Len(calls') : calls'[k].kind # "llm" ]_vars

\* C28 witness: a pass over an empty store has failed at synthesis, and
\* only there
C28_Witness ==
  /\ pc = "review"
  /\ collection = <<>>
  /\ Len(calls) = 1
  /\ calls[1].count = 0
  /\ channels.errors = <<"No retrieved chunks available for synthesis">>

\* the rejections so far: main calls app.invoke once at the start and once
\* after every rejection
Rejections == invokes - 1

\* C29: a final report approved after r rejections carries
\* iterationCount = r + 1, the session's iteration counter: 1 when the
\* first draft is approved, 2 after one rejection.
C29_ApprovedIterationCount ==
  (pc = "done" /\ state.humanFeedback.approved /\ saved.present) =>
    /\ saved.iterationCount = Rejections + 1
    /\ saved.iterationCount = state.iterationCount

\* C30: the synthesis prompt of a pass that follows a rejection contains the
\* feedback text of that rejection, and the synthesis prompt of a first
\* pass contains no feedback text.
C30_FeedbackInPrompt ==
  (pc = "synthesis" /\ Len(channels.retrievedChunks) > 0) =>
    IF Rejections = 0
    THEN SynthesisPrompt(channels).feedback = <<>>
    ELSE /\ state.humanFeedback.present
         /\ ~state.humanFeedback.approved
         /\ SynthesisPrompt(channels).feedback = <<state.humanFeedback.feedback>>

\* C30 witness: the synthesis of the pass after a second rejection, whose
\* feedback was "add more detail", is about to build its prompt
C30_Witness ==
  /\ pc = "synthesis"
  /\ Len(channels.retrievedChunks) > 0
  /\ Rejections = 2
  /\ state.humanFeedback.feedback = "add more detail"
  /\ SynthesisPrompt(channels).feedback = <<"add more detail">>

(***************************************************************************)
(* The parsing of the synthesis response.  A response is what each way of *)
(* reading it finds: bare, the whole trimmed content is a schema-valid     *)
(* report; fenced, the ```json block; span, the text from the first { to   *)
(* the last } (the second regular expression is greedy); firstObject, the  *)
(* first balanced brace-delimited object.                                  *)
(***************************************************************************)
Forms == {"none", "valid", "invalid"}

\* a valid report is an object, so a valid bare content is its own span; a
\* valid span starts at the first { and is the first object; a fenced
\* report brings braces with it
Responses ==
  { r \in [ bare : BOOLEAN, fenced : Forms, span : Forms, firstObject : Forms ] :
      /\ (r.span = "none") <=> (r.firstObject = "none")
      /\ r.span = "valid" => r.firstObject = "valid"
      /\ r.bare => (r.span = "valid" /\ r.fenced = "none")
      /\ r.fenced # "none" => r.span # "none" }

\* a fenced block accepted whatever it holds
ParseReport_AnyFence(r) ==
  \/ r.bare
  \/ r.fenced # "none"
  \/ r.span = "valid"

\* TRUE when `report` is assigned: JSON.parse and ResearchReportSchema.parse
\* of the content, else of the fenced block if there is one, else of the
\* span
ParseReport(r) ==
  \/ r.bare
  \/ IF r.fenced # "none" THEN r.fenced = "valid" ELSE r.span = "valid"

\* a draft kept from an earlier pass
EarlierDraft == [ present |-> TRUE, iterationCount |-> 1, citations |-> <<>> ]

ParseInputs ==
  { [ AskedState EXCEPT
        !.subQueries      = <<SubQuery(1, "high")>>,
        !.iterationCount  = IF draft.present THEN 2 ELSE 1,
        !.currentNode     = "synthesizing",
        !.draftReport     = draft,
        !.errors          = errors,
        !.retrievedChunks = [ i \in 1..Len(c) |-> RetrievedChunk(c[i]) ],
        !.searchResults   = [ i \in 1..n |-> SearchResult(i) ] ] :
      c \in SeqsUpTo(ChunkUrls, 2), n \in 0..2, draft \in {NullReport, EarlierDraft},
      errors \in {<<>>, <<"vector storage error">>} }

InitParse ==
  /\ channels \in ParseInputs
  /\ state = AskedState
  /\ pc = "synthesis"
  /\ collection = <<>>
  /\ invokes = 1
  /\ faults = 0
  /\ saved = NullReport
  /\ route = "none"
  /\ chunking = NoChunking
  /\ calls = <<>>

SynthesizeResponse ==
  /\ pc = "synthesis"
  /\ \E response \in Responses :
       /\ EngineStep("synthesis", synthesisNode(channels, ParseReport(response)))
       /\ calls' = calls \o [ k \in 1..Len(SynthesisCalls(channels)) |->
                                [ kind |-> "llm", response |-> response ] ]
  /\ UNCHANGED <<collection, invokes, faults, saved, route, chunking>>

NextParse == SynthesizeResponse

SpecParse == InitParse /\ [][NextParse]_vars

\* no way of reading the response finds a valid report
NoValidForm(r) == ~r.bare /\ r.fenced # "valid" /\ r.firstObject # "valid"

\* C31: when the synthesis response holds no parseable, schema-valid report
\* as bare JSON, as a fenced block or as the first brace-delimited object,
\* the language model has been called exactly once in the pass, draftReport
\* is unchanged, one message is appended to the error log and the marker
\* is "error".
C31_ParseFailureIsFatal ==
  [][ (pc = "synthesis" /\ Len(calls') > 0 /\ NoValidForm(calls'[Len(calls')].response)) =>
        /\ Len(calls') = Len(calls) + 1
        /\ channels'.draftReport = channels.draftReport
        /\ Len(channels'.errors) = Len(channels.errors) + 1
        /\ IsPrefix(channels.errors, channels'.errors)
        /\ channels'.currentNode = "error" ]_vars

\* C31 witness: a response with an invalid fenced block and an invalid
\* object has failed a revision pass that still holds the earlier draft
C31_Witness ==
  /\ pc = "review"
  /\ Len(calls) = 1
  /\ calls[1].response.fenced = "invalid"
  /\ calls[1].response.firstObject = "invalid"
  /\ channels.draftReport = EarlierDraft
  /\ channels.currentNode = "error"
  /\ Len(channels.errors) = 2

\* C32: an approval stamps finalReport with the draft under review, sets
\* the marker to "complete" and ends the session with that report emitted;
\* until then finalReport is null, in the caller's state and in the
\* engine's, also while a revision is pending; an abort ends the session
\* with finalReport null and nothing emitted.
C32_FinalReportLifecycle ==
  [][ /\ (pc = "review" /\ state'.humanFeedback.approved) =>
           /\ state.draftReport.present
           /\ state'.finalReport = state.draftReport
           /\ state'.currentNode = "complete"
           /\ pc' = "done"
           /\ saved' = state.draftReport
      /\ pc' # "done" =>
           /\ ~state'.finalReport.present
           /\ ~channels'.finalReport.present
           /\ ~saved'.present
      /\ pc' = "exit_quit" =>
           /\ pc = "review"
           /\ state' = state ]_vars

\* C32 witness: the second draft was approved after one rejection
C32_Witness ==
  /\ pc = "done"
  /\ Rejections = 1
  /\ state.humanFeedback.approved
  /\ state.currentNode = "complete"
  /\ state.finalReport.present
  /\ state.finalReport.iterationCount = 2
  /\ saved = state.finalReport

(***************************************************************************)
(* The review prompt on its own.  The session waits at the interrupt; the  *)
(* reviewer's entries are read one at a time and calls records each entry  *)
(* that was not recognized.                                                *)
(***************************************************************************)
\* the most unrecognized entries in a row
MaxPrompts == 3

\* entries that are none of A, R, Q after toUpperCase()
Unrecognized == {"X", ""}

ReviewStates ==
  { [ st EXCEPT !.retrievedChunks = IF st.draftReport.present
                                    THEN <<RetrievedChunk(1)>> ELSE <<>> ] :
      st \in InterruptedStates }

\* an unrecognized entry taken for a rejection without feedback
Reprompt_AsReject(st) ==
  ObjectAssign(st, humanReviewNode(st, "R", ""))

\* return humanReviewNode(state): the state the nested call is given
Reprompt(st) == st

InitReview ==
  /\ channels \in ReviewStates
  /\ state = channels
  /\ pc = "review"
  /\ collection = <<>>
  /\ invokes = 1
  /\ faults = 0
  /\ saved = NullReport
  /\ route = "none"
  /\ chunking = NoChunking
  /\ calls = <<>>

ReviewReprompt ==
  /\ pc = "review"
  /\ WhileCond(state)
  /\ state.draftReport.present
  /\ Len(calls) < MaxPrompts
  /\ \E choice \in Unrecognized :
       /\ state' = Reprompt(state)
       /\ calls' = Append(calls, [ kind |-> "review choice", choice |-> choice ])
  /\ UNCHANGED <<channels, pc, collection, invokes, faults, saved, route, chunking>>

NextReview == ReviewReprompt \/ Review \/ ReviewQuit

SpecReview == InitReview /\ [][NextReview]_vars

\* C33: an entry that is none of approve, reject and abort changes no field
\* of the session: no feedback is recorded, the draft and the retrieved
\* chunks are kept, the marker and the iteration counter are unchanged, and
\* the review is still waiting for an entry.
C33_UnrecognizedChoiceKeepsState ==
  [][ Len(calls') > Len(calls) =>
        /\ state' = state
        /\ channels' = channels
        /\ pc' = "review"
        /\ saved' = saved
        /\ invokes' = invokes ]_vars

\* C33 witness: two unrecognized entries have been read and the review of
\* the first draft is still waiting, nothing recorded
C33_Witness ==
  /\ Len(calls) = 2
  /\ pc = "review"
  /\ state.draftReport.present
  /\ state.iterationCount = 1
  /\ state.currentNode = "awaiting_human"
  /\ Len(state.retrievedChunks) = 1
  /\ ~state.humanFeedback.present

\* C34: once synthesis has succeeded in the session (a draft was reviewed
\* and rejected), whenever control is back with the caller after a later
\* pass, the most recent draft is there to be presented, or a report has
\* been emitted.
C34_BestEffortReport ==
  (Rejections >= 1 /\ pc \in {"review", "done", "exit_no_report"}) =>
    \/ state.draftReport.present
    \/ saved.present

\* C35: the index stage persists chunks only for the pages scraped in the
\* current pass, so a page scraped by an earlier pass is not written to
\* the store again.  (In the model a page yields one chunk.)
C35_PagesStoredOnce ==
  [][ pc = "vector_store" =>
        /\ Len(collection') - Len(collection) <= Len(KeptCalls(calls))
        /\ \A k \in (Len(collection) + 1)..Len(collection') :
             \E c \in 1..Len(calls) :
               /\ calls[c].outcome \in {"ok", "fifty one"}
               /\ calls[c].url = collection'[k].url ]_vars

\* C36: when the index stage fails (an embedding or a store write throws),
\* it appends one message to the error log, sets the marker to
\* "retrieving", not to "error", and the retrieval stage runs next.
C36_IndexFailureNotFatal ==
  [][ (pc = "vector_store" /\ channels'.errors # channels.errors) =>
        /\ Len(channels'.errors) = Len(channels.errors) + 1
        /\ IsPrefix(channels.errors, channels'.errors)
        /\ channels'.currentNode = "retrieving"
        /\ pc' = "retrieval" ]_vars

\* C36 witness: the store write of the first pass failed and retrieval is
\* next
C36_Witness ==
  /\ pc = "retrieval"
  /\ channels.currentNode = "retrieving"
  /\ channels.errors = <<"vector storage error">>
  /\ Len(channels.scrapedContent) > 0

(***************************************************************************)
(* Scrape passes of one session, one after the other.  Between two scrape  *)
(* stages the pass goes on to the review, the draft is rejected and main   *)
(* resumes the graph with its whole state, which the append reducers add   *)
(* to the checkpointed lists; the search of the new pass finds no new url. *)
(***************************************************************************)
\* the scrape passes of a session: reasoningNode ends the session at the
\* iteration cap
MaxPasses == MAX_ITERATIONS

NextPass ==
  /\ pc = "vector_store"
  /\ invokes < MaxPasses
  /\ channels' = ApplyUpdate(channels, [ searchResults  |-> channels.searchResults,
                                         scrapedContent |-> channels.scrapedContent ])
  /\ invokes' = invokes + 1
  /\ pc' = "scraper"
  /\ UNCHANGED <<state, collection, faults, saved, route, chunking, calls>>

NextRescrape == ScrapePass \/ NextPass

SpecRescrape == InitScrape /\ [][NextRescrape]_vars

\* the results among un with a score above that of the result at p
HigherScored(st, un, p) ==
  { q \in un : ScoreOrZero(st.searchResults[q]) > ScoreOrZero(st.searchResults[p]) }

\* the results among un placed before the result at p by the stable sort
PlacedBefore(st, un, p) ==
  { q \in un :
      \/ ScoreOrZero(st.searchResults[q]) > ScoreOrZero(st.searchResults[p])
      \/ /\ ScoreOrZero(st.searchResults[q]) = ScoreOrZero(st.searchResults[p])
         /\ q < p }

FetchedUrls(cs) == { cs[k].url : k \in 1..Len(cs) }

Answers(allResults) ==
  { allResults[q][j] : q \in 1..Len(allResults), j \in 1..TOP_K_PER_QUERY }

\* C38: of the query results with the same dedup key, the entry in the
\* retrieval output has the highest relevance score.
C38_BestScoreKept ==
  pc = "synthesis" =>
    \A i \in 1..Len(channels.retrievedChunks) :
      \A a \in Answers(collection) :
        (DedupKey(a.content) = DedupKey(channels.retrievedChunks[i].content)
           /\ a.content.length > 50)
          => a.relevanceScore <= channels.retrievedChunks[i].relevanceScore

\* C39: after the index stage, completed or failed part-way, every chunk
\* id persisted to the evidence store in the session is in storedChunkIds.
C39_PersistedIdsTracked ==
  pc = "retrieval" =>
    \A k \in 1..Len(collection) : collection[k].id \in Range(channels.storedChunkIds)

\* C40: when main's loop holds a state with no draft report, the step it
\* takes leaves the loop: the review step is not taken again and again on a
\* state without a draft.
C40_LoopLeavesWithoutDraft ==
  [][ (pc = "review" /\ ~state.draftReport.present) => pc' # "review" ]_vars

====
